---------------------------- MODULE Spec2Model ----------------------------
(***************************************************************************)
(* Verification model of the ATR grid strategy core: CapitalGuard and      *)
(* RiskManager (strategy/risk_manager.py), the regime parameter table,     *)
(* the grid planner and the trailing stop of ATRGridStrategy               *)
(* (strategy/atr_grid_strategy.py) and the two regime detectors            *)
(* (strategy/regime_detector.py, strategy/atr_grid_strategy.py).           *)
(*                                                                         *)
(* Python floats are modelled as exact rationals <<n, d>> with d > 0 in    *)
(* lowest terms; the float NaN is <<0, 0>> and compares false with         *)
(* everything, as in Python.  A Python None is the record None.            *)
(***************************************************************************)
EXTENDS Integers, Sequences, FiniteSets, TLC

VARIABLES
    \* RiskManager / CapitalGuard (risk_manager.py)
    max_margin_ratio,       \* CapitalGuard.max_margin_ratio
    warning_threshold,      \* CapitalGuard.warning_threshold
    emergency_drawdown,     \* CapitalGuard.emergency_drawdown
    daily_loss_limit,       \* RiskManager.daily_loss_limit
    peak_equity,            \* RiskManager.peak_equity
    daily_starting_equity,  \* RiskManager.daily_starting_equity
    call,                   \* the last operation called, with its arguments
    result,                 \* what that operation returned
    passed,                 \* history: equities passed to update_peak_equity / check_all_limits
    emergency_at,           \* history, where kept: equities at which check_all_limits returned Emergency for drawdown
    float_bits,             \* the arithmetic of a sized entry: 0 for exact numbers, else the bits of a float's significand
    \* callers sharing one RiskManager (threads of the external scheduler)
    serialized,             \* TRUE when the callers hold one mutex around each call
    pc,                     \* per caller: position inside update_peak_equity / check_all_limits
    arg,                    \* per caller: the current_equity it was called with
    opname,                 \* per caller: the operation it is running
    \* one position's trailing stop (atr_grid_strategy.py)
    direction,              \* GridState.direction
    sl_price,               \* GridState.sl_price
    highest_price,          \* GridState.highest_price
    lowest_price,           \* GridState.lowest_price
    tick,                   \* the last update_trailing_sl call and the stop before it
    \* regime detectors
    window_long,            \* RegimeDetector.window_long
    adx_threshold,          \* RegimeDetector.adx_threshold (environment edition)
    atr_vol_threshold,      \* RegimeDetector.atr_vol_threshold (environment edition)
    df,                     \* the bar series last analysed, seen through its indicators
    regime_out,             \* what the last detector call returned
    \* ATRGridStrategy and its module (atr_grid_strategy.py)
    REGIME_CONFIGS,         \* the module-level table: regime -> RegimeConfig
    environ,                \* os.environ, as far as the strategy reads it
    ema_period,             \* ATRGridStrategy.ema_period
    sl_atr_mult,            \* ATRGridStrategy.sl_atr_mult
    grid_call,              \* the last strategy operation called, with its arguments
    grid_out                \* what that operation returned

riskVars   == <<float_bits, max_margin_ratio, warning_threshold, emergency_drawdown,
                daily_loss_limit, peak_equity, daily_starting_equity,
                call, result, passed, emergency_at>>
raceVars   == <<serialized, pc, arg, opname>>
trailVars  == <<direction, sl_price, highest_price, lowest_price, tick>>
regimeVars == <<window_long, adx_threshold, atr_vol_threshold, df, regime_out>>
gridVars   == <<REGIME_CONFIGS, environ, ema_period, sl_atr_mult, grid_call, grid_out>>
vars       == <<riskVars, raceVars, trailVars, regimeVars, gridVars>>

---------------------------------------------------------------------------
(* Float arithmetic over exact rationals.                                  *)

NaN  == <<0, 0>>
None == [none |-> TRUE]

Abs(i) == IF i < 0 THEN -i ELSE i

RECURSIVE Gcd(_, _)
Gcd(a, b) == IF b = 0 THEN a ELSE Gcd(b, a % b)

\* The rational n/d (d # 0) in lowest terms with a positive denominator.
Rat(n, d) ==
    LET g == Gcd(Abs(n), Abs(d))
        s == IF d < 0 THEN -1 ELSE 1
    IN  <<(s * n) \div g, (s * d) \div g>>

R(i)       == <<i, 1>>
Zero       == R(0)
One        == R(1)
IsNaN(x)   == x[2] = 0
\* Arithmetic; a NaN operand gives NaN.  RDiv is used with y # 0 only: the
\* operations below guard their divisions, or raise ZeroDivisionError.
RAdd(x, y) == IF IsNaN(x) \/ IsNaN(y) THEN NaN
              ELSE Rat(x[1] * y[2] + y[1] * x[2], x[2] * y[2])
RSub(x, y) == IF IsNaN(x) \/ IsNaN(y) THEN NaN
              ELSE Rat(x[1] * y[2] - y[1] * x[2], x[2] * y[2])
RMul(x, y) == IF IsNaN(x) \/ IsNaN(y) THEN NaN
              ELSE Rat(x[1] * y[1], x[2] * y[2])
RDiv(x, y) == IF IsNaN(x) \/ IsNaN(y) THEN NaN
              ELSE Rat(x[1] * y[2], x[2] * y[1])
RNeg(x)    == <<-x[1], x[2]>>
RAbs(x)    == <<Abs(x[1]), x[2]>>
\* Comparisons are false as soon as one side is NaN.
RLt(x, y)  == ~IsNaN(x) /\ ~IsNaN(y) /\ x[1] * y[2] < y[1] * x[2]
RLe(x, y)  == ~IsNaN(x) /\ ~IsNaN(y) /\ x[1] * y[2] <= y[1] * x[2]
RGt(x, y)  == RLt(y, x)
RGe(x, y)  == RLe(y, x)
\* Python's max(x, y) and min(x, y): the first argument unless the second beats it.
RMax(x, y) == IF RGt(y, x) THEN y ELSE x
RMin(x, y) == IF RLt(y, x) THEN y ELSE x
\* The largest element of a non-empty set of rationals.
MaxOf(S)   == CHOOSE x \in S : \A y \in S : RLe(y, x)

\* Python's numbers are binary floats: each literal and each result of + - * /
\* is the nearest number m * 2^k with m below 2^float_bits, a tie going to the
\* even m (IEEE 754 round-to-nearest-even; no overflow or underflow).  The
\* operators above compute the exact value; the ones below round it.
RECURSIVE Pow2(_)
Pow2(k) == IF k = 0 THEN 1 ELSE 2 * Pow2(k - 1)

\* The power of two u, from u up or down, with 2^(float_bits-1) <= a / u < 2^float_bits.
RECURSIVE Ulp(_, _)
Ulp(a, u) ==
    IF a[1] * u[2] >= Pow2(float_bits) * u[1] * a[2]
    THEN Ulp(a, Rat(2 * u[1], u[2]))
    ELSE IF a[1] * u[2] < Pow2(float_bits - 1) * u[1] * a[2]
    THEN Ulp(a, Rat(u[1], 2 * u[2]))
    ELSE u

Fl(x) ==
    IF IsNaN(x) \/ x[1] = 0 THEN x
    ELSE LET a  == <<Abs(x[1]), x[2]>>
             u  == Ulp(a, <<1, 1>>)
             q  == Rat(a[1] * u[2], a[2] * u[1])
             m  == q[1] \div q[2]
             r2 == 2 * (q[1] - m * q[2])
             up == r2 > q[2] \/ (r2 = q[2] /\ m % 2 = 1)
             s  == IF x[1] < 0 THEN -1 ELSE 1
         IN  Rat(s * (IF up THEN m + 1 ELSE m) * u[1], u[2])

\* What the arithmetic of the run keeps of an exact value.
Round(x) == IF float_bits = 0 THEN x ELSE Fl(x)

FAdd(x, y) == Round(RAdd(x, y))
FSub(x, y) == Round(RSub(x, y))
FMul(x, y) == Round(RMul(x, y))
FDiv(x, y) == Round(RDiv(x, y))

---------------------------------------------------------------------------
(* risk_manager.py                                                         *)

SAFE      == "safe"
WARNING   == "warning"
BLOCKED   == "blocked"
EMERGENCY == "emergency"
RiskLevel == {SAFE, WARNING, BLOCKED, EMERGENCY}

\* The messages carry formatted numbers; the model keeps their fixed text.
RiskCheckResult(allowed, risk_level, margin_ratio, message, details) ==
    [allowed |-> allowed, risk_level |-> risk_level, margin_ratio |-> margin_ratio,
     message |-> message, details |-> details]

\* A slip of check_entry: the limit itself already blocks.
check_entry_blocks_at_limit(equity, current_margin, proposed_margin) ==
    IF RLe(equity, Zero)
    THEN RiskCheckResult(FALSE, EMERGENCY, One, "Zero or negative equity", None)
    ELSE LET safe_balance == RMul(equity, max_margin_ratio)
             total_margin == RAdd(current_margin, proposed_margin)
             margin_ratio == RDiv(total_margin, equity)
         IN  IF RGe(margin_ratio, max_margin_ratio)
             THEN RiskCheckResult(FALSE, BLOCKED, margin_ratio, "Margin limit exceeded",
                      [equity |-> equity, current_margin |-> current_margin,
                       proposed_margin |-> proposed_margin,
                       total_margin |-> total_margin, safe_balance |-> safe_balance])
             ELSE IF RGt(margin_ratio, warning_threshold)
             THEN RiskCheckResult(TRUE, WARNING, margin_ratio, "Warning: Margin at",
                      [equity |-> equity, total_margin |-> total_margin,
                       remaining |-> RSub(safe_balance, total_margin)])
             ELSE RiskCheckResult(TRUE, SAFE, margin_ratio, "Entry allowed: Margin at",
                      [equity |-> equity, total_margin |-> total_margin,
                       remaining |-> RSub(safe_balance, total_margin)])

\* A slip of check_entry: the proposed margin is subtracted, not added.
check_entry_subtracts(equity, current_margin, proposed_margin) ==
    IF RLe(equity, Zero)
    THEN RiskCheckResult(FALSE, EMERGENCY, One, "Zero or negative equity", None)
    ELSE LET safe_balance == RMul(equity, max_margin_ratio)
             total_margin == RSub(current_margin, proposed_margin)
             margin_ratio == RDiv(total_margin, equity)
         IN  IF RGt(margin_ratio, max_margin_ratio)
             THEN RiskCheckResult(FALSE, BLOCKED, margin_ratio, "Margin limit exceeded",
                      [equity |-> equity, current_margin |-> current_margin,
                       proposed_margin |-> proposed_margin,
                       total_margin |-> total_margin, safe_balance |-> safe_balance])
             ELSE IF RGt(margin_ratio, warning_threshold)
             THEN RiskCheckResult(TRUE, WARNING, margin_ratio, "Warning: Margin at",
                      [equity |-> equity, total_margin |-> total_margin,
                       remaining |-> RSub(safe_balance, total_margin)])
             ELSE RiskCheckResult(TRUE, SAFE, margin_ratio, "Entry allowed: Margin at",
                      [equity |-> equity, total_margin |-> total_margin,
                       remaining |-> RSub(safe_balance, total_margin)])

\* A slip of check_entry: an account without equity is not turned away.
check_entry_without_equity_guard(equity, current_margin, proposed_margin) ==
    IF RLe(equity, Zero)
    THEN RiskCheckResult(TRUE, SAFE, Zero, "Entry allowed: Margin at", None)
    ELSE LET safe_balance == RMul(equity, max_margin_ratio)
             total_margin == RAdd(current_margin, proposed_margin)
             margin_ratio == RDiv(total_margin, equity)
         IN  IF RGt(margin_ratio, max_margin_ratio)
             THEN RiskCheckResult(FALSE, BLOCKED, margin_ratio, "Margin limit exceeded",
                      [equity |-> equity, current_margin |-> current_margin,
                       proposed_margin |-> proposed_margin,
                       total_margin |-> total_margin, safe_balance |-> safe_balance])
             ELSE IF RGt(margin_ratio, warning_threshold)
             THEN RiskCheckResult(TRUE, WARNING, margin_ratio, "Warning: Margin at",
                      [equity |-> equity, total_margin |-> total_margin,
                       remaining |-> RSub(safe_balance, total_margin)])
             ELSE RiskCheckResult(TRUE, SAFE, margin_ratio, "Entry allowed: Margin at",
                      [equity |-> equity, total_margin |-> total_margin,
                       remaining |-> RSub(safe_balance, total_margin)])

\* A slip of check_entry: a warning is returned with allowed = False.
check_entry_warning_denied(equity, current_margin, proposed_margin) ==
    IF RLe(equity, Zero)
    THEN RiskCheckResult(FALSE, EMERGENCY, One, "Zero or negative equity", None)
    ELSE LET safe_balance == RMul(equity, max_margin_ratio)
             total_margin == RAdd(current_margin, proposed_margin)
             margin_ratio == RDiv(total_margin, equity)
         IN  IF RGt(margin_ratio, max_margin_ratio)
             THEN RiskCheckResult(FALSE, BLOCKED, margin_ratio, "Margin limit exceeded",
                      [equity |-> equity, current_margin |-> current_margin,
                       proposed_margin |-> proposed_margin,
                       total_margin |-> total_margin, safe_balance |-> safe_balance])
             ELSE IF RGt(margin_ratio, warning_threshold)
             THEN RiskCheckResult(FALSE, WARNING, margin_ratio, "Warning: Margin at",
                      [equity |-> equity, total_margin |-> total_margin,
                       remaining |-> RSub(safe_balance, total_margin)])
             ELSE RiskCheckResult(TRUE, SAFE, margin_ratio, "Entry allowed: Margin at",
                      [equity |-> equity, total_margin |-> total_margin,
                       remaining |-> RSub(safe_balance, total_margin)])

\* CapitalGuard.check_entry, on the guard whose thresholds are the state's.
check_entry(equity, current_margin, proposed_margin) ==
    IF RLe(equity, Zero)
    THEN RiskCheckResult(FALSE, EMERGENCY, One, "Zero or negative equity", None)
    ELSE LET safe_balance == RMul(equity, max_margin_ratio)
             total_margin == RAdd(current_margin, proposed_margin)
             margin_ratio == RDiv(total_margin, equity)
         IN  IF RGt(margin_ratio, max_margin_ratio)
             THEN RiskCheckResult(FALSE, BLOCKED, margin_ratio, "Margin limit exceeded",
                      [equity |-> equity, current_margin |-> current_margin,
                       proposed_margin |-> proposed_margin,
                       total_margin |-> total_margin, safe_balance |-> safe_balance])
             ELSE IF RGt(margin_ratio, warning_threshold)
             THEN RiskCheckResult(TRUE, WARNING, margin_ratio, "Warning: Margin at",
                      [equity |-> equity, total_margin |-> total_margin,
                       remaining |-> RSub(safe_balance, total_margin)])
             ELSE RiskCheckResult(TRUE, SAFE, margin_ratio, "Entry allowed: Margin at",
                      [equity |-> equity, total_margin |-> total_margin,
                       remaining |-> RSub(safe_balance, total_margin)])

\* A slip of check_grid_entry: only the next level's margin is proposed.
check_grid_entry_next_level(equity, margin_per_level, max_levels, current_margin) ==
    check_entry(equity, current_margin, margin_per_level)

\* CapitalGuard.check_grid_entry; max_levels is an int.
check_grid_entry(equity, margin_per_level, max_levels, current_margin) ==
    LET potential_margin == RMul(margin_per_level, R(max_levels))
    IN  check_entry(equity, current_margin, potential_margin)

\* The literal 0.10 of check_emergency_stop's Safe/Warning split.
DrawdownWarning == <<1, 10>>

\* A slip of check_emergency_stop: a strict comparison with the emergency level.
check_emergency_stop_strict(current_equity, peak) ==
    IF RLe(peak, Zero)
    THEN RiskCheckResult(TRUE, SAFE, Zero, "No peak equity recorded", None)
    ELSE LET drawdown == RDiv(RSub(peak, current_equity), peak)
         IN  IF RGt(drawdown, emergency_drawdown)
             THEN RiskCheckResult(FALSE, EMERGENCY, drawdown, "EMERGENCY STOP: Drawdown",
                      [current_equity |-> current_equity, peak_equity |-> peak,
                       drawdown |-> drawdown, threshold |-> emergency_drawdown])
             ELSE RiskCheckResult(TRUE,
                      IF RLt(drawdown, DrawdownWarning) THEN SAFE ELSE WARNING,
                      drawdown, "Drawdown:",
                      [current_equity |-> current_equity, peak_equity |-> peak,
                       drawdown |-> drawdown])

\* A slip of check_emergency_stop: the Safe/Warning split follows the
\* emergency level (0.67 of it) instead of being the literal.
check_emergency_stop_scaled(current_equity, peak) ==
    IF RLe(peak, Zero)
    THEN RiskCheckResult(TRUE, SAFE, Zero, "No peak equity recorded", None)
    ELSE LET drawdown == RDiv(RSub(peak, current_equity), peak)
         IN  IF RGe(drawdown, emergency_drawdown)
             THEN RiskCheckResult(FALSE, EMERGENCY, drawdown, "EMERGENCY STOP: Drawdown",
                      [current_equity |-> current_equity, peak_equity |-> peak,
                       drawdown |-> drawdown, threshold |-> emergency_drawdown])
             ELSE RiskCheckResult(TRUE,
                      IF RLt(drawdown, RMul(emergency_drawdown, <<67, 100>>))
                      THEN SAFE ELSE WARNING,
                      drawdown, "Drawdown:",
                      [current_equity |-> current_equity, peak_equity |-> peak,
                       drawdown |-> drawdown])

\* CapitalGuard.check_emergency_stop.
check_emergency_stop(current_equity, peak) ==
    IF RLe(peak, Zero)
    THEN RiskCheckResult(TRUE, SAFE, Zero, "No peak equity recorded", None)
    ELSE LET drawdown == RDiv(RSub(peak, current_equity), peak)
         IN  IF RGe(drawdown, emergency_drawdown)
             THEN RiskCheckResult(FALSE, EMERGENCY, drawdown, "EMERGENCY STOP: Drawdown",
                      [current_equity |-> current_equity, peak_equity |-> peak,
                       drawdown |-> drawdown, threshold |-> emergency_drawdown])
             ELSE RiskCheckResult(TRUE,
                      IF RLt(drawdown, DrawdownWarning) THEN SAFE ELSE WARNING,
                      drawdown, "Drawdown:",
                      [current_equity |-> current_equity, peak_equity |-> peak,
                       drawdown |-> drawdown])

\* desired_value / leverage with leverage = 0 raises.
ZeroDivisionError == [raised |-> "ZeroDivisionError"]

\* A slip of calculate_position_size: the desired margin is never clamped.
calculate_position_size_unclamped(equity, capital_pct, leverage, current_price, current_margin) ==
    IF leverage = 0 THEN ZeroDivisionError
    ELSE
    LET desired_value    == RMul(equity, capital_pct)
        desired_margin   == RDiv(desired_value, R(leverage))
        safe_balance     == RMul(equity, max_margin_ratio)
        available_margin == RMax(Zero, RSub(safe_balance, current_margin))
        quantity         == IF RGt(current_price, Zero)
                            THEN RDiv(desired_value, current_price) ELSE Zero
    IN  [desired_value    |-> desired_value,
         desired_margin   |-> desired_margin,
         actual_value     |-> desired_value,
         actual_margin    |-> desired_margin,
         quantity         |-> quantity,
         adjusted         |-> FALSE,
         margin_ratio     |-> IF RGt(equity, Zero)
                              THEN RDiv(RAdd(current_margin, desired_margin), equity)
                              ELSE Zero,
         remaining_margin |-> RSub(available_margin, desired_margin)]

\* CapitalGuard.calculate_position_size; leverage is an int.
calculate_position_size(equity, capital_pct, leverage, current_price, current_margin) ==
    IF leverage = 0 THEN ZeroDivisionError
    ELSE
    LET desired_value    == RMul(equity, capital_pct)
        desired_margin   == RDiv(desired_value, R(leverage))
        safe_balance     == RMul(equity, max_margin_ratio)
        available_margin == RMax(Zero, RSub(safe_balance, current_margin))
        adjusted         == RGt(desired_margin, available_margin)
        actual_margin    == IF adjusted THEN available_margin ELSE desired_margin
        actual_value     == IF adjusted THEN RMul(actual_margin, R(leverage))
                                        ELSE desired_value
        quantity         == IF RGt(current_price, Zero)
                            THEN RDiv(actual_value, current_price) ELSE Zero
    IN  [desired_value    |-> desired_value,
         desired_margin   |-> desired_margin,
         actual_value     |-> actual_value,
         actual_margin    |-> actual_margin,
         quantity         |-> quantity,
         adjusted         |-> adjusted,
         margin_ratio     |-> IF RGt(equity, Zero)
                              THEN RDiv(RAdd(current_margin, actual_margin), equity)
                              ELSE Zero,
         remaining_margin |-> RSub(available_margin, actual_margin)]

\* A slip of update_peak_equity: the comparison is missing.
update_peak_equity_overwrite(current_equity) == current_equity

\* RiskManager.update_peak_equity: the value peak_equity holds after the call.
update_peak_equity(current_equity) ==
    IF RGt(current_equity, peak_equity) THEN current_equity ELSE peak_equity

\* A slip of reset_daily_stats: the equity passed is not stored.
reset_daily_stats_keeps(current_equity) == daily_starting_equity

\* RiskManager.reset_daily_stats: the value daily_starting_equity holds after it.
reset_daily_stats(current_equity) == current_equity

\* A slip of the daily-loss check: a loss equal to the limit passes.
daily_loss_check_strict(current_equity) ==
    IF RGt(daily_starting_equity, Zero)
    THEN LET daily_pnl == RDiv(RSub(current_equity, daily_starting_equity),
                               daily_starting_equity)
         IN  IF RLt(daily_pnl, RNeg(daily_loss_limit))
             THEN RiskCheckResult(FALSE, BLOCKED, RAbs(daily_pnl),
                                  "Daily loss limit reached", None)
             ELSE None
    ELSE None

\* RiskManager.check_all_limits, step 2: the daily-loss result, or None when the
\* daily check lets the call through.
daily_loss_check(current_equity) ==
    IF RGt(daily_starting_equity, Zero)
    THEN LET daily_pnl == RDiv(RSub(current_equity, daily_starting_equity),
                               daily_starting_equity)
         IN  IF RLe(daily_pnl, RNeg(daily_loss_limit))
             THEN RiskCheckResult(FALSE, BLOCKED, RAbs(daily_pnl),
                                  "Daily loss limit reached", None)
             ELSE None
    ELSE None

\* A slip of check_all_limits: an emergency rebases peak_equity on the equity seen.
check_all_limits_rebases_peak(current_equity, current_margin, proposed_margin) ==
    LET peak            == update_peak_equity(current_equity)
        emergency_check == check_emergency_stop(current_equity, peak)
        daily           == daily_loss_check(current_equity)
    IN  [peak_equity |-> IF ~emergency_check.allowed THEN current_equity ELSE peak,
         result |-> IF ~emergency_check.allowed THEN emergency_check
                    ELSE IF daily # None THEN daily
                    ELSE check_entry(current_equity, current_margin, proposed_margin)]

\* A slip of check_all_limits: the daily-loss check runs before the emergency check.
check_all_limits_daily_first(current_equity, current_margin, proposed_margin) ==
    LET peak            == update_peak_equity(current_equity)
        emergency_check == check_emergency_stop(current_equity, peak)
        daily           == daily_loss_check(current_equity)
    IN  [peak_equity |-> peak,
         result |-> IF daily # None THEN daily
                    ELSE IF ~emergency_check.allowed THEN emergency_check
                    ELSE check_entry(current_equity, current_margin, proposed_margin)]

\* RiskManager.check_all_limits: the new peak_equity and the result returned.
check_all_limits(current_equity, current_margin, proposed_margin) ==
    LET peak            == update_peak_equity(current_equity)
        emergency_check == check_emergency_stop(current_equity, peak)
        daily           == daily_loss_check(current_equity)
    IN  [peak_equity |-> peak,
         result |-> IF ~emergency_check.allowed THEN emergency_check
                    ELSE IF daily # None THEN daily
                    ELSE check_entry(current_equity, current_margin, proposed_margin)]

\* The record of check_all_limits' drawdown emergencies: the equity of a call
\* is added when the result returned is check_emergency_stop's denial.
emergency_at_after(current_equity, returned) ==
    IF /\ emergency_at.kept
       /\ returned.risk_level = EMERGENCY
       /\ returned.message = "EMERGENCY STOP: Drawdown"
    THEN [emergency_at EXCEPT !.at = @ \cup {current_equity}]
    ELSE emergency_at

---------------------------------------------------------------------------
(* Inputs of the risk operations.                                          *)

Rs(S) == {R(i) : i \in S}

Equities        == Rs({-100, 0, 8500, 9000, 10000})
CurrentMargins  == Rs({0, 2000, 4000, 6000})
ProposedMargins == Rs({0, 1000, 3000})
\* The (current_margin, proposed_margin) pairs check_all_limits is called with:
\* at equity 10000 they give the ratios 0.2, 0.4, 0.5 and 0.7.
MarginPairs     == {<<R(cm), R(pm)>> : cm \in {2000, 4000}, pm \in {0, 3000}}
MarginsPerLevel == Rs({500, 1000})
MaxLevels       == {0, 3, 5}
CapitalPcts     == {Zero, <<1, 4>>, One}
Leverages       == {0, 1, 3}
Prices          == Rs({0, 50})

\* Threshold configurations: the defaults of risk_manager.py and one other each.
MaxMarginRatios    == {<<1, 2>>, <<3, 5>>}
WarningThresholds  == {<<2, 5>>, <<3, 10>>}
EmergencyDrawdowns == {<<3, 20>>, <<3, 10>>}
DailyLossLimits    == {<<1, 20>>, <<1, 10>>}

NoCall == [op |-> "none"]

\* The parts of the state a specification does not exercise stay as constructed.
Threads == {1, 2}

RaceIdle ==
    /\ serialized = TRUE
    /\ pc = [t \in Threads |-> "idle"]
    /\ arg = [t \in Threads |-> Zero]
    /\ opname = [t \in Threads |-> "none"]

TrailIdle ==
    /\ direction = "neutral"
    /\ sl_price = Zero
    /\ highest_price = Zero
    /\ lowest_price = Zero
    /\ tick = NoCall

RegimeIdle ==
    /\ window_long = 50
    /\ adx_threshold = Zero
    /\ atr_vol_threshold = Zero
    /\ df = None
    /\ regime_out = None

\* The module as imported, with nothing set in the environment, and the
\* strategy as ATRGridStrategy.__init__ leaves it.
GridIdle ==
    /\ REGIME_CONFIGS = <<>>
    /\ environ = None
    /\ ema_period = 200
    /\ sl_atr_mult = Zero
    /\ grid_call = NoCall
    /\ grid_out = None

\* The emergency history of a run that does not keep it, and the empty one.
NotKept == [kept |-> FALSE, at |-> {}]
Kept    == [kept |-> TRUE, at |-> {}]

\* RiskManager.__init__ / CapitalGuard.__init__ with the default thresholds.
RiskIdle ==
    /\ float_bits = 0
    /\ max_margin_ratio = <<1, 2>>
    /\ warning_threshold = <<2, 5>>
    /\ emergency_drawdown = <<3, 20>>
    /\ daily_loss_limit = <<1, 20>>
    /\ peak_equity = Zero
    /\ daily_starting_equity = Zero
    /\ call = NoCall
    /\ result = None
    /\ passed = {}
    /\ emergency_at = NotKept

riskConfig == <<float_bits, max_margin_ratio, warning_threshold, emergency_drawdown, daily_loss_limit>>
riskFields == <<peak_equity, daily_starting_equity>>

---------------------------------------------------------------------------
(* CapitalGuard: the pure operations of one guard.  A call is drawn with   *)
(* the guard's thresholds, then the operation called is applied to it.     *)

CheckEntryCalls ==
    [op : {"check_entry"}, equity : Equities,
     current_margin : CurrentMargins, proposed_margin : ProposedMargins]

CheckGridEntryCalls ==
    [op : {"check_grid_entry"}, equity : Equities, margin_per_level : MarginsPerLevel,
     max_levels : MaxLevels, current_margin : CurrentMargins]

CheckEmergencyStopCalls ==
    [op : {"check_emergency_stop"}, current_equity : Equities, peak_equity : Equities]

CalculatePositionSizeCalls ==
    [op : {"calculate_position_size"}, equity : Equities, capital_pct : CapitalPcts,
     leverage : Leverages, current_price : Prices, current_margin : CurrentMargins]

\* CapitalGuard.__init__(max_margin_ratio, warning_threshold, emergency_drawdown).
InitGuard ==
    /\ float_bits = 0
    /\ max_margin_ratio \in MaxMarginRatios
    /\ warning_threshold \in WarningThresholds
    /\ emergency_drawdown \in EmergencyDrawdowns
    /\ daily_loss_limit = <<1, 20>>
    /\ peak_equity = Zero
    /\ daily_starting_equity = Zero
    /\ call \in CheckEntryCalls \cup CheckGridEntryCalls
                \cup CheckEmergencyStopCalls \cup CalculatePositionSizeCalls
    /\ result = None
    /\ passed = {}
    /\ emergency_at = NotKept
    /\ RaceIdle /\ TrailIdle /\ RegimeIdle /\ GridIdle

CheckEntry ==
    /\ call.op = "check_entry" /\ result = None
    /\ result' = check_entry(call.equity, call.current_margin, call.proposed_margin)
    /\ UNCHANGED <<riskConfig, riskFields, call, passed, emergency_at, raceVars, trailVars, regimeVars, gridVars>>

CheckGridEntry ==
    /\ call.op = "check_grid_entry" /\ result = None
    /\ result' = check_grid_entry(call.equity, call.margin_per_level,
                                  call.max_levels, call.current_margin)
    /\ UNCHANGED <<riskConfig, riskFields, call, passed, emergency_at, raceVars, trailVars, regimeVars, gridVars>>

CheckEmergencyStop ==
    /\ call.op = "check_emergency_stop" /\ result = None
    /\ result' = check_emergency_stop(call.current_equity, call.peak_equity)
    /\ UNCHANGED <<riskConfig, riskFields, call, passed, emergency_at, raceVars, trailVars, regimeVars, gridVars>>

CalculatePositionSize ==
    /\ call.op = "calculate_position_size" /\ result = None
    /\ result' = calculate_position_size(call.equity, call.capital_pct, call.leverage,
                                         call.current_price, call.current_margin)
    /\ UNCHANGED <<riskConfig, riskFields, call, passed, emergency_at, raceVars, trailVars, regimeVars, gridVars>>

NextGuard ==
    \/ CheckEntry
    \/ CheckGridEntry
    \/ CheckEmergencyStop
    \/ CalculatePositionSize

SpecGuard == InitGuard /\ [][NextGuard]_vars

\* CapitalGuard.check_entry with each result rounded as the run's floats round it.
check_entry_fl(equity, current_margin, proposed_margin) ==
    IF RLe(equity, Zero)
    THEN RiskCheckResult(FALSE, EMERGENCY, One, "Zero or negative equity", None)
    ELSE LET safe_balance == FMul(equity, max_margin_ratio)
             total_margin == FAdd(current_margin, proposed_margin)
             margin_ratio == FDiv(total_margin, equity)
         IN  IF RGt(margin_ratio, max_margin_ratio)
             THEN RiskCheckResult(FALSE, BLOCKED, margin_ratio, "Margin limit exceeded",
                      [equity |-> equity, current_margin |-> current_margin,
                       proposed_margin |-> proposed_margin,
                       total_margin |-> total_margin, safe_balance |-> safe_balance])
             ELSE IF RGt(margin_ratio, warning_threshold)
             THEN RiskCheckResult(TRUE, WARNING, margin_ratio, "Warning: Margin at",
                      [equity |-> equity, total_margin |-> total_margin,
                       remaining |-> FSub(safe_balance, total_margin)])
             ELSE RiskCheckResult(TRUE, SAFE, margin_ratio, "Entry allowed: Margin at",
                      [equity |-> equity, total_margin |-> total_margin,
                       remaining |-> FSub(safe_balance, total_margin)])

\* CapitalGuard.calculate_position_size with each result rounded likewise.
calculate_position_size_fl(equity, capital_pct, leverage, current_price, current_margin) ==
    IF leverage = 0 THEN ZeroDivisionError
    ELSE
    LET desired_value    == FMul(equity, capital_pct)
        desired_margin   == FDiv(desired_value, R(leverage))
        safe_balance     == FMul(equity, max_margin_ratio)
        available_margin == RMax(Zero, FSub(safe_balance, current_margin))
        adjusted         == RGt(desired_margin, available_margin)
        actual_margin    == IF adjusted THEN available_margin ELSE desired_margin
        actual_value     == IF adjusted THEN FMul(actual_margin, R(leverage))
                                        ELSE desired_value
        quantity         == IF RGt(current_price, Zero)
                            THEN FDiv(actual_value, current_price) ELSE Zero
    IN  [desired_value    |-> desired_value,
         desired_margin   |-> desired_margin,
         actual_value     |-> actual_value,
         actual_margin    |-> actual_margin,
         quantity         |-> quantity,
         adjusted         |-> adjusted,
         margin_ratio     |-> IF RGt(equity, Zero)
                              THEN FDiv(FAdd(current_margin, actual_margin), equity)
                              ELSE Zero,
         remaining_margin |-> FSub(available_margin, actual_margin)]

---------------------------------------------------------------------------
(* CapitalGuard under float arithmetic: a position is sized, then the size *)
(* is submitted to check_entry on the same guard.                          *)

Precision == 8

\* A value a float of the run holds exactly.
Representable(x) == Round(x) = x

FloatEquities       == Rs({0, 100, 131, 200})
FloatCurrentMargins == {Zero, <<3, 4>>, R(50), R(80)}

\* CapitalGuard() with its defaults; the literals are rounded as the
\* arithmetic of the run rounds them.
InitFloat ==
    /\ float_bits \in {0, Precision}
    /\ max_margin_ratio = Round(<<1, 2>>)
    /\ warning_threshold = Round(<<2, 5>>)
    /\ emergency_drawdown = Round(<<3, 20>>)
    /\ daily_loss_limit = Round(<<1, 20>>)
    /\ peak_equity = Zero
    /\ daily_starting_equity = Zero
    /\ call = NoCall
    /\ result = None
    /\ passed = {}
    /\ emergency_at = NotKept
    /\ RaceIdle /\ TrailIdle /\ RegimeIdle /\ GridIdle

\* calculate_position_size(equity, capital_pct, leverage, current_price, current_margin).
SizePosition ==
    \E equity \in FloatEquities, capital_pct \in CapitalPcts,
       leverage \in Leverages, current_margin \in FloatCurrentMargins :
        /\ Representable(equity) /\ Representable(capital_pct)
        /\ Representable(current_margin)
        /\ call' = [op |-> "calculate_position_size", equity |-> equity,
                    capital_pct |-> capital_pct, leverage |-> leverage,
                    current_price |-> R(50), current_margin |-> current_margin]
        /\ result' = calculate_position_size_fl(equity, capital_pct, leverage,
                                                R(50), current_margin)
        /\ UNCHANGED <<riskConfig, riskFields, passed, emergency_at, raceVars, trailVars, regimeVars, gridVars>>

\* check_entry(equity, current_margin, actual_margin) with the size just returned.
CheckSizedEntry ==
    /\ call.op = "calculate_position_size" /\ result # ZeroDivisionError
    /\ call' = [op |-> "check_entry", equity |-> call.equity,
                current_margin |-> call.current_margin,
                proposed_margin |-> result.actual_margin,
                sized |-> call, size |-> result]
    /\ result' = check_entry_fl(call.equity, call.current_margin, result.actual_margin)
    /\ UNCHANGED <<riskConfig, riskFields, passed, emergency_at, raceVars, trailVars, regimeVars, gridVars>>

NextFloat ==
    \/ SizePosition
    \/ CheckSizedEntry

SpecFloat == InitFloat /\ [][NextFloat]_vars

---------------------------------------------------------------------------
(* RiskManager: one manager, its calls run one at a time.                  *)

\* RiskManager.__init__(max_margin_ratio, emergency_drawdown, daily_loss_limit):
\* the guard it builds keeps the default warning_threshold.
InitRisk ==
    /\ float_bits = 0
    /\ max_margin_ratio \in MaxMarginRatios
    /\ warning_threshold = <<2, 5>>
    /\ emergency_drawdown \in EmergencyDrawdowns
    /\ daily_loss_limit \in DailyLossLimits
    /\ peak_equity = Zero
    /\ daily_starting_equity = Zero
    /\ call = NoCall
    /\ result = None
    /\ passed = {}
    /\ emergency_at = NotKept
    /\ RaceIdle /\ TrailIdle /\ RegimeIdle /\ GridIdle

UpdatePeakEquity ==
    \E current_equity \in Equities :
        /\ call' = [op |-> "update_peak_equity", current_equity |-> current_equity]
        /\ peak_equity' = update_peak_equity(current_equity)
        /\ result' = None
        /\ passed' = passed \cup {current_equity}
        /\ UNCHANGED <<riskConfig, daily_starting_equity, emergency_at, raceVars, trailVars, regimeVars, gridVars>>

ResetDailyStats ==
    \E current_equity \in Equities :
        /\ call' = [op |-> "reset_daily_stats", current_equity |-> current_equity]
        /\ daily_starting_equity' = reset_daily_stats(current_equity)
        /\ result' = None
        /\ UNCHANGED <<riskConfig, peak_equity, passed, emergency_at, raceVars, trailVars, regimeVars, gridVars>>

CheckAllLimits ==
    \E current_equity \in Equities, margins \in MarginPairs :
        LET out == check_all_limits(current_equity, margins[1], margins[2])
        IN  /\ call' = [op |-> "check_all_limits", current_equity |-> current_equity,
                        current_margin |-> margins[1],
                        proposed_margin |-> margins[2]]
            /\ peak_equity' = out.peak_equity
            /\ result' = out.result
            /\ passed' = passed \cup {current_equity}
            /\ emergency_at' = emergency_at_after(current_equity, out.result)
            /\ UNCHANGED <<riskConfig, daily_starting_equity, raceVars, trailVars, regimeVars, gridVars>>

NextRisk ==
    \/ UpdatePeakEquity
    \/ ResetDailyStats
    \/ CheckAllLimits

SpecRisk == InitRisk /\ [][NextRisk]_vars

---------------------------------------------------------------------------
(* RiskManager with the default margin and daily limits, keeping the       *)
(* history of its drawdown emergencies.                                    *)

InitSticky ==
    /\ float_bits = 0
    /\ max_margin_ratio = <<1, 2>>
    /\ warning_threshold = <<2, 5>>
    /\ emergency_drawdown \in EmergencyDrawdowns
    /\ daily_loss_limit = <<1, 20>>
    /\ peak_equity = Zero
    /\ daily_starting_equity = Zero
    /\ call = NoCall
    /\ result = None
    /\ passed = {}
    /\ emergency_at = Kept
    /\ RaceIdle /\ TrailIdle /\ RegimeIdle /\ GridIdle

SpecSticky == InitSticky /\ [][NextRisk]_vars

---------------------------------------------------------------------------
(* The RiskManager built with its default thresholds, with the operations  *)
(* of its capital_guard called between the manager's own.                  *)

GuardEquities == Rs({0, 9000})

GuardCheckEntry ==
    \E equity \in GuardEquities, margins \in MarginPairs :
        /\ call' = [op |-> "check_entry", equity |-> equity,
                    current_margin |-> margins[1], proposed_margin |-> margins[2]]
        /\ result' = check_entry(equity, margins[1], margins[2])
        /\ UNCHANGED <<riskConfig, riskFields, passed, emergency_at, raceVars, trailVars, regimeVars, gridVars>>

GuardCheckGridEntry ==
    \E equity \in GuardEquities, margin_per_level \in MarginsPerLevel :
        /\ call' = [op |-> "check_grid_entry", equity |-> equity,
                    margin_per_level |-> margin_per_level, max_levels |-> 5,
                    current_margin |-> Zero]
        /\ result' = check_grid_entry(equity, margin_per_level, 5, Zero)
        /\ UNCHANGED <<riskConfig, riskFields, passed, emergency_at, raceVars, trailVars, regimeVars, gridVars>>

GuardCheckEmergencyStop ==
    \E current_equity \in GuardEquities, peak \in {peak_equity, R(10000)} :
        /\ call' = [op |-> "check_emergency_stop", current_equity |-> current_equity,
                    peak_equity |-> peak]
        /\ result' = check_emergency_stop(current_equity, peak)
        /\ UNCHANGED <<riskConfig, riskFields, passed, emergency_at, raceVars, trailVars, regimeVars, gridVars>>

GuardCalculatePositionSize ==
    \E equity \in GuardEquities, leverage \in Leverages :
        /\ call' = [op |-> "calculate_position_size", equity |-> equity,
                    capital_pct |-> <<1, 4>>, leverage |-> leverage,
                    current_price |-> R(50), current_margin |-> R(2000)]
        /\ result' = calculate_position_size(equity, <<1, 4>>, leverage, R(50), R(2000))
        /\ UNCHANGED <<riskConfig, riskFields, passed, emergency_at, raceVars, trailVars, regimeVars, gridVars>>

\* RiskManager.__init__ with every default.
InitManager ==
    /\ RiskIdle /\ RaceIdle /\ TrailIdle /\ RegimeIdle /\ GridIdle

NextManager ==
    \/ UpdatePeakEquity
    \/ ResetDailyStats
    \/ CheckAllLimits
    \/ GuardCheckEntry
    \/ GuardCheckGridEntry
    \/ GuardCheckEmergencyStop
    \/ GuardCalculatePositionSize

SpecManager == InitManager /\ [][NextManager]_vars

---------------------------------------------------------------------------
(* Callers sharing one RiskManager.  update_peak_equity reads peak_equity, *)
(* compares, and writes in separate steps; check_all_limits runs it and    *)
(* then reads peak_equity again for check_emergency_stop.  With            *)
(* `serialized` the callers hold one mutex around each call.               *)

RaceEquities == Rs({8500, 9000, 10000})

\* The mutex of the serialized discipline: a call starts when no other runs.
may_enter(t) == serialized => \A u \in Threads \ {t} : pc[u] = "idle"

\* A slip of update_peak_equity: the comparison is missing.
peak_compare_always(t) == TRUE

\* update_peak_equity, the test `current_equity > self.peak_equity`.
peak_compare(t) == RGt(arg[t], peak_equity)

\* Where a caller goes once update_peak_equity has returned.
after_update(t) == IF opname[t] = "check_all_limits" THEN "emergency" ELSE "idle"

InitRace ==
    /\ RiskIdle /\ TrailIdle /\ RegimeIdle /\ GridIdle
    /\ serialized \in BOOLEAN
    /\ pc = [t \in Threads |-> "idle"]
    /\ arg = [t \in Threads |-> Zero]
    /\ opname = [t \in Threads |-> "none"]

\* A caller enters update_peak_equity or check_all_limits with an equity.
Enter(t) ==
    /\ pc[t] = "idle" /\ may_enter(t)
    /\ \E op \in {"update_peak_equity", "check_all_limits"}, e \in RaceEquities :
        /\ opname' = [opname EXCEPT ![t] = op]
        /\ arg' = [arg EXCEPT ![t] = e]
        /\ passed' = passed \cup {e}
    /\ pc' = [pc EXCEPT ![t] = "compare"]
    /\ UNCHANGED <<riskConfig, riskFields, call, result, emergency_at, serialized, trailVars, regimeVars, gridVars>>

\* update_peak_equity: read peak_equity and compare.
Compare(t) ==
    /\ pc[t] = "compare"
    /\ pc' = [pc EXCEPT ![t] = IF peak_compare(t) THEN "write" ELSE after_update(t)]
    /\ opname' = IF peak_compare(t) \/ opname[t] = "check_all_limits"
                 THEN opname ELSE [opname EXCEPT ![t] = "none"]
    /\ arg' = IF peak_compare(t) \/ opname[t] = "check_all_limits"
              THEN arg ELSE [arg EXCEPT ![t] = Zero]
    /\ UNCHANGED <<riskVars, serialized, trailVars, regimeVars, gridVars>>

\* update_peak_equity: self.peak_equity = current_equity.
Write(t) ==
    /\ pc[t] = "write"
    /\ peak_equity' = arg[t]
    /\ pc' = [pc EXCEPT ![t] = after_update(t)]
    /\ opname' = IF opname[t] = "check_all_limits"
                 THEN opname ELSE [opname EXCEPT ![t] = "none"]
    /\ arg' = IF opname[t] = "check_all_limits"
              THEN arg ELSE [arg EXCEPT ![t] = Zero]
    /\ UNCHANGED <<riskConfig, daily_starting_equity, call, result, passed, emergency_at,
                   serialized, trailVars, regimeVars, gridVars>>

\* check_all_limits after update_peak_equity: read peak_equity, run
\* check_emergency_stop, then the daily-loss and margin checks, and return.
Finish(t) ==
    /\ pc[t] = "emergency"
    /\ \E margins \in MarginPairs :
        LET emergency_check == check_emergency_stop(arg[t], peak_equity)
            daily           == daily_loss_check(arg[t])
        IN  /\ call' = [op |-> "check_all_limits", current_equity |-> arg[t],
                        current_margin |-> margins[1], proposed_margin |-> margins[2],
                        peak_equity |-> peak_equity,
                        true_peak |-> MaxOf(passed \cup {Zero})]
            /\ result' = IF ~emergency_check.allowed THEN emergency_check
                         ELSE IF daily # None THEN daily
                         ELSE check_entry(arg[t], margins[1], margins[2])
            /\ emergency_at' = emergency_at_after(arg[t], emergency_check)
    /\ pc' = [pc EXCEPT ![t] = "idle"]
    /\ opname' = [opname EXCEPT ![t] = "none"]
    /\ arg' = [arg EXCEPT ![t] = Zero]
    /\ UNCHANGED <<riskConfig, riskFields, passed, serialized, trailVars, regimeVars, gridVars>>

NextRace ==
    \E t \in Threads :
        \/ Enter(t)
        \/ Compare(t)
        \/ Write(t)
        \/ Finish(t)

SpecRace == InitRace /\ [][NextRace]_vars

---------------------------------------------------------------------------
(* atr_grid_strategy.py: the trailing stop of one position.                *)

LONG    == "long"
SHORT   == "short"
NEUTRAL == "neutral"
BOTH    == "both"
GridDirection == {LONG, SHORT, NEUTRAL, BOTH}

\* A slip of update_trailing_sl: the candidate stop is adopted without comparing.
update_trailing_sl_follow(dir, current_price, current_sl, highest, lowest, sl_drawdown) ==
    IF dir = LONG
    THEN LET new_highest == IF RGt(current_price, highest) THEN current_price ELSE highest
         IN  <<RMul(new_highest, RSub(One, sl_drawdown)), new_highest, lowest>>
    ELSE LET new_lowest == IF RLt(current_price, lowest) THEN current_price ELSE lowest
         IN  <<RMul(new_lowest, RAdd(One, sl_drawdown)), highest, new_lowest>>

\* A slip of update_trailing_sl: the water mark is set to the current price.
update_trailing_sl_marks_price(dir, current_price, current_sl, highest, lowest, sl_drawdown) ==
    IF dir = LONG
    THEN LET new_highest == current_price
             trailing_sl == RMul(new_highest, RSub(One, sl_drawdown))
             new_sl      == IF RGt(trailing_sl, current_sl) THEN trailing_sl ELSE current_sl
         IN  <<new_sl, new_highest, lowest>>
    ELSE LET new_lowest  == current_price
             trailing_sl == RMul(new_lowest, RAdd(One, sl_drawdown))
             new_sl      == IF RLt(trailing_sl, current_sl) THEN trailing_sl ELSE current_sl
         IN  <<new_sl, highest, new_lowest>>

\* ATRGridStrategy.update_trailing_sl: <<new_sl, new_highest, new_lowest>>.
update_trailing_sl(dir, current_price, current_sl, highest, lowest, sl_drawdown) ==
    IF dir = LONG
    THEN LET new_highest == IF RGt(current_price, highest) THEN current_price ELSE highest
             trailing_sl == RMul(new_highest, RSub(One, sl_drawdown))
             new_sl      == IF RGt(trailing_sl, current_sl) THEN trailing_sl ELSE current_sl
         IN  <<new_sl, new_highest, lowest>>
    ELSE LET new_lowest  == IF RLt(current_price, lowest) THEN current_price ELSE lowest
             trailing_sl == RMul(new_lowest, RAdd(One, sl_drawdown))
             new_sl      == IF RLt(trailing_sl, current_sl) THEN trailing_sl ELSE current_sl
         IN  <<new_sl, highest, new_lowest>>

TrailPrices == Rs({90, 100, 110})
InitialStops == Rs({0, 95, 200})
SlDrawdowns == {Zero, <<1, 10>>, <<1, 2>>, <<-1, 10>>}

\* A position opens: the caller's GridState holds its stop and water marks.
InitTrail ==
    /\ RiskIdle /\ RaceIdle /\ RegimeIdle /\ GridIdle
    /\ direction \in GridDirection
    /\ sl_price \in InitialStops
    /\ highest_price \in TrailPrices
    /\ lowest_price \in TrailPrices
    /\ tick = NoCall

\* One tick: the caller passes the stored stop and water marks and stores
\* what update_trailing_sl returns.
UpdateTrailingSl ==
    \E current_price \in TrailPrices, sl_drawdown \in SlDrawdowns :
        LET out == update_trailing_sl(direction, current_price, sl_price,
                                      highest_price, lowest_price, sl_drawdown)
        IN  /\ tick' = [op |-> "update_trailing_sl", current_price |-> current_price,
                        current_sl |-> sl_price, highest_price |-> highest_price,
                        lowest_price |-> lowest_price, sl_drawdown |-> sl_drawdown]
            /\ sl_price' = out[1]
            /\ highest_price' = out[2]
            /\ lowest_price' = out[3]
            /\ UNCHANGED <<direction, riskVars, raceVars, regimeVars, gridVars>>

NextTrail == UpdateTrailingSl

SpecTrail == InitTrail /\ [][NextTrail]_vars

---------------------------------------------------------------------------
(* The regime detectors.  A bar series is seen through what the detectors  *)
(* take from it: its length and the last values of the indicator series    *)
(* pandas computes (ADX, ATR, the rolling mean of ATR, EMA, close).        *)

STABLE_TREND   == "stable_trend"
VOLATILE_TREND == "volatile_trend"
SIDEWAYS_QUIET == "sideways_quiet"
SIDEWAYS_CHOP  == "sideways_chop"
UNKNOWN        == "unknown"
MarketRegime   == {STABLE_TREND, VOLATILE_TREND, SIDEWAYS_QUIET, SIDEWAYS_CHOP, UNKNOWN}

\* regime_detector.py: the class thresholds.
ADX_THRESHOLD     == R(25)
ATR_VOL_THRESHOLD == <<6, 5>>

MaxBars == 3

\* Indicator values of a series.  A flat series (every true range 0) has ATR 0,
\* a rolling mean of 0, close = EMA, and 0/0 = NaN in every DI, so ADX is NaN;
\* any other series has ATR > 0, a positive rolling mean and an ADX in [0, 100].
Indicators ==
    {[adx |-> NaN, current_atr |-> Zero, avg_atr |-> Zero, ema |-> R(100), close |-> R(100)]}
    \cup [adx : Rs({0, 20, 25, 30}), current_atr : Rs({4, 5, 6, 9}), avg_atr : Rs({5}),
          ema : Rs({100}), close : Rs({99, 100, 101})]

Series == {[len |-> n] @@ i : n \in 0..MaxBars, i \in Indicators}

\* calculate_atr_ratio (both editions), from the last ATR and the last rolling mean.
calculate_atr_ratio(d) ==
    IF RGt(d.avg_atr, Zero) THEN RDiv(d.current_atr, d.avg_atr) ELSE One

\* A slip of detect_regime: ADX at the threshold counts as trending.
detect_regime_trend_at_threshold(d) ==
    IF d.len < window_long THEN UNKNOWN
    ELSE LET current_adx == d.adx
             atr_ratio   == calculate_atr_ratio(d)
             is_trending == RGe(current_adx, ADX_THRESHOLD)
             is_volatile == RGe(atr_ratio, ATR_VOL_THRESHOLD)
         IN  IF is_trending
             THEN IF is_volatile THEN VOLATILE_TREND ELSE STABLE_TREND
             ELSE IF is_volatile THEN SIDEWAYS_CHOP ELSE SIDEWAYS_QUIET

\* regime_detector.py, RegimeDetector.detect_regime.
detect_regime(d) ==
    IF d.len < window_long THEN UNKNOWN
    ELSE LET current_adx == d.adx
             atr_ratio   == calculate_atr_ratio(d)
             is_trending == RGt(current_adx, ADX_THRESHOLD)
             is_volatile == RGe(atr_ratio, ATR_VOL_THRESHOLD)
         IN  IF is_trending
             THEN IF is_volatile THEN VOLATILE_TREND ELSE STABLE_TREND
             ELSE IF is_volatile THEN SIDEWAYS_CHOP ELSE SIDEWAYS_QUIET

\* A slip of the environment edition: a ratio at the threshold counts as quiet.
detect_regime_grid_quiet_at_threshold(d) ==
    IF d.len < window_long
    THEN [regime |-> UNKNOWN, adx |-> Zero, atr_ratio |-> One]
    ELSE LET adx       == d.adx
             atr_ratio == calculate_atr_ratio(d)
         IN  [regime |-> IF RGt(adx, adx_threshold)
                         THEN IF RLe(atr_ratio, atr_vol_threshold)
                              THEN STABLE_TREND ELSE VOLATILE_TREND
                         ELSE IF RLe(atr_ratio, atr_vol_threshold)
                              THEN SIDEWAYS_QUIET ELSE SIDEWAYS_CHOP,
              adx |-> adx, atr_ratio |-> atr_ratio]

\* atr_grid_strategy.py, RegimeDetector.detect_regime: (regime, adx, atr_ratio).
detect_regime_grid(d) ==
    IF d.len < window_long
    THEN [regime |-> UNKNOWN, adx |-> Zero, atr_ratio |-> One]
    ELSE LET adx       == d.adx
             atr_ratio == calculate_atr_ratio(d)
         IN  [regime |-> IF RGt(adx, adx_threshold)
                         THEN IF RLt(atr_ratio, atr_vol_threshold)
                              THEN STABLE_TREND ELSE VOLATILE_TREND
                         ELSE IF RLt(atr_ratio, atr_vol_threshold)
                              THEN SIDEWAYS_QUIET ELSE SIDEWAYS_CHOP,
              adx |-> adx, atr_ratio |-> atr_ratio]

RegimeAnalysis(regime, trend_strength, volatility_ratio, ema_200, atr_14, is_bullish, is_bearish, confidence) ==
    [regime |-> regime, trend_strength |-> trend_strength,
     volatility_ratio |-> volatility_ratio, ema_200 |-> ema_200, atr_14 |-> atr_14,
     is_bullish |-> is_bullish, is_bearish |-> is_bearish, confidence |-> confidence]

\* A slip of analyze: the length test is off by one.
analyze_off_by_one(d) ==
    IF d.len < window_long - 1
    THEN RegimeAnalysis(UNKNOWN, Zero, One, Zero, Zero, FALSE, FALSE, Zero)
    ELSE LET current_adx  == d.adx
             atr_ratio    == calculate_atr_ratio(d)
             adx_distance == RDiv(RAbs(RSub(current_adx, ADX_THRESHOLD)), ADX_THRESHOLD)
             vol_distance == RDiv(RAbs(RSub(atr_ratio, ATR_VOL_THRESHOLD)), ATR_VOL_THRESHOLD)
         IN  RegimeAnalysis(detect_regime(d),
                            current_adx, atr_ratio, d.ema, d.current_atr,
                            RGt(d.close, d.ema), RLt(d.close, d.ema),
                            RMin(One, RDiv(RAdd(adx_distance, vol_distance), R(2))))

\* regime_detector.py, RegimeDetector.analyze.
analyze(d) ==
    IF d.len < window_long
    THEN RegimeAnalysis(UNKNOWN, Zero, One, Zero, Zero, FALSE, FALSE, Zero)
    ELSE LET current_adx   == d.adx
             current_atr   == d.current_atr
             atr_ratio     == calculate_atr_ratio(d)
             current_ema   == d.ema
             current_price == d.close
             is_bullish    == RGt(current_price, current_ema)
             is_bearish    == RLt(current_price, current_ema)
             regime        == detect_regime(d)
             adx_distance  == RDiv(RAbs(RSub(current_adx, ADX_THRESHOLD)), ADX_THRESHOLD)
             vol_distance  == RDiv(RAbs(RSub(atr_ratio, ATR_VOL_THRESHOLD)), ATR_VOL_THRESHOLD)
             confidence    == RMin(One, RDiv(RAdd(adx_distance, vol_distance), R(2)))
         IN  RegimeAnalysis(regime, current_adx, atr_ratio, current_ema, current_atr,
                            is_bullish, is_bearish, confidence)

\* regime_detector.py 256-259 on a detector whose ADX_THRESHOLD and
\* ATR_VOL_THRESHOLD attributes carry the configured thresholds (0 when unset,
\* config/parameters.py 102-103).  current_adx is a Python float, so line 257
\* raises on a zero threshold; atr_ratio is a numpy float when avg_atr > 0
\* (line 166), whose division by 0.0 gives inf or nan, which min(1.0, .) turns
\* into 1.0, and the Python float 1.0 otherwise (line 167), whose division raises.
analyze_confidence(d, adx_thr, vol_thr) ==
    IF d.len < window_long THEN [confidence |-> Zero]
    ELSE LET current_adx == d.adx
             atr_ratio   == calculate_atr_ratio(d)
         IN  IF adx_thr = Zero THEN ZeroDivisionError
             ELSE IF vol_thr = Zero
             THEN IF RGt(d.avg_atr, Zero) THEN [confidence |-> One]
                  ELSE ZeroDivisionError
             ELSE LET adx_distance == RDiv(RAbs(RSub(current_adx, adx_thr)), adx_thr)
                      vol_distance == RDiv(RAbs(RSub(atr_ratio, vol_thr)), vol_thr)
                  IN  [confidence |-> RMin(One, RDiv(RAdd(adx_distance, vol_distance), R(2)))]

\* Both detectors are built with a window_long; the environment edition reads
\* its thresholds from the environment (0 when unset).
InitRegime ==
    /\ RiskIdle /\ RaceIdle /\ TrailIdle /\ GridIdle
    /\ window_long \in 1..MaxBars
    /\ adx_threshold \in {Zero, R(25)}
    /\ atr_vol_threshold \in {Zero, <<6, 5>>}
    /\ df \in Series
    /\ regime_out = None

DetectRegime ==
    /\ regime_out = None
    /\ regime_out' = [op |-> "detect_regime", regime |-> detect_regime(df)]
    /\ UNCHANGED <<window_long, adx_threshold, atr_vol_threshold, df,
                   riskVars, raceVars, trailVars, gridVars>>

DetectRegimeGrid ==
    /\ regime_out = None
    /\ regime_out' = [op |-> "detect_regime_grid"] @@ detect_regime_grid(df)
    /\ UNCHANGED <<window_long, adx_threshold, atr_vol_threshold, df,
                   riskVars, raceVars, trailVars, gridVars>>

Analyze ==
    /\ regime_out = None
    /\ regime_out' = [op |-> "analyze"] @@ analyze(df)
    /\ UNCHANGED <<window_long, adx_threshold, atr_vol_threshold, df,
                   riskVars, raceVars, trailVars, gridVars>>

AnalyzeConfigured ==
    /\ regime_out = None
    /\ regime_out' = [op |-> "analyze_configured"]
                      @@ analyze_confidence(df, adx_threshold, atr_vol_threshold)
    /\ UNCHANGED <<window_long, adx_threshold, atr_vol_threshold, df,
                   riskVars, raceVars, trailVars, gridVars>>

NextRegime ==
    \/ DetectRegime
    \/ DetectRegimeGrid
    \/ Analyze
    \/ AnalyzeConfigured

SpecRegime == InitRegime /\ [][NextRegime]_vars

---------------------------------------------------------------------------
(* atr_grid_strategy.py: the regime parameter table and ATRGridStrategy.   *)

RegimeConfig(base_spacing_pct, tp_mult, sl_drawdown, max_levels, volatility_threshold, ai_filter_strict) ==
    [base_spacing_pct |-> base_spacing_pct, tp_mult |-> tp_mult,
     sl_drawdown |-> sl_drawdown, max_levels |-> max_levels,
     volatility_threshold |-> volatility_threshold,
     ai_filter_strict |-> ai_filter_strict]

\* initialize_regime_configs, the placeholder of its except branch.
PlaceholderConfig == RegimeConfig(Zero, One, Zero, 0, One, FALSE)

\* What the environment holds for one regime's REGIME_<NAME>_* variables: none
\* of them, a text float() / int() cannot read, or a set of values.
EnvUnset      == [set |-> "unset"]
EnvMalformed  == [set |-> "malformed"]
EnvSet(config) == [set |-> "set", config |-> config]

ValueError == [raised |-> "ValueError"]

\* _load_regime_config followed by cls(**config): the getenv defaults when a
\* variable is unset; float() / int() raise ValueError on a malformed text.
from_production_config(regime) ==
    LET e == environ.regimes[regime]
    IN  IF e.set = "malformed" THEN ValueError
        ELSE IF e.set = "unset" THEN RegimeConfig(Zero, One, Zero, 0, One, FALSE)
        ELSE e.config

\* initialize_regime_configs: the table after the call.  Every regime except
\* UNKNOWN gets an entry; other keys of the table are left as they are.
initialize_regime_configs ==
    LET written == MarketRegime \ {UNKNOWN}
    IN  [regime \in (DOMAIN REGIME_CONFIGS) \cup written |->
            IF regime \in written
            THEN IF from_production_config(regime) = ValueError
                 THEN PlaceholderConfig
                 ELSE from_production_config(regime)
            ELSE REGIME_CONFIGS[regime]]

\* A slip of get_regime_config: the table is loaded again on every call.
regime_configs_reloaded == initialize_regime_configs

\* get_regime_config, lines 327-328: the table after the call.
regime_configs_after_get ==
    IF DOMAIN REGIME_CONFIGS = {} THEN initialize_regime_configs ELSE REGIME_CONFIGS

\* get_regime_config, line 329: what it returns (None when neither the regime
\* nor UNKNOWN has an entry).
get_regime_config(regime) ==
    LET table == regime_configs_after_get
    IN  IF regime \in DOMAIN table THEN table[regime]
        ELSE IF UNKNOWN \in DOMAIN table THEN table[UNKNOWN]
        ELSE None

\* A slip of should_skip_entry: a volatility ratio at the threshold also skips.
should_skip_entry_at_threshold(regime, adx, is_bearish, volatility_ratio) ==
    LET config == get_regime_config(regime)
    IN  IF config = None THEN [skip |-> FALSE, reason |-> ""]
        ELSE IF config.ai_filter_strict /\ is_bearish
                /\ RGe(volatility_ratio, config.volatility_threshold)
             THEN [skip |-> TRUE, reason |-> "AI Filter (" \o regime \o ")"]
             ELSE [skip |-> FALSE, reason |-> ""]

\* ATRGridStrategy.should_skip_entry: (skip, reason).
should_skip_entry(regime, adx, is_bearish, volatility_ratio) ==
    LET config == get_regime_config(regime)
    IN  IF config = None THEN [skip |-> FALSE, reason |-> ""]
        ELSE LET vol_threshold    == config.volatility_threshold
                 ai_filter_strict == config.ai_filter_strict
             IN  IF ai_filter_strict /\ is_bearish /\ RGt(volatility_ratio, vol_threshold)
                 THEN [skip |-> TRUE, reason |-> "AI Filter (" \o regime \o ")"]
                 ELSE [skip |-> FALSE, reason |-> ""]

_calculate_adaptive_spacing(current_price, current_atr, base_spacing_pct, regime) ==
    LET min_spacing == RMul(current_price, base_spacing_pct)
        atr_spacing == RMul(current_atr, sl_atr_mult)
    IN  RMax(atr_spacing, min_spacing)

\* The regime argument left at its default None.
NoRegime == "None"

\* A slip of calculate_next_entry_price: the spacing is the ATR spacing alone.
calculate_next_entry_price_atr_only(dir, current_price, current_atr, regime) ==
    LET spacing == RMul(current_atr, sl_atr_mult)
    IN  IF dir = LONG THEN RSub(current_price, spacing)
        ELSE RAdd(current_price, spacing)

\* ATRGridStrategy.calculate_next_entry_price.
calculate_next_entry_price(dir, current_price, current_atr, regime) ==
    LET base_spacing_pct ==
            IF regime # NoRegime
            THEN LET config == get_regime_config(regime)
                 IN  IF config # None THEN config.base_spacing_pct ELSE Zero
            ELSE environ.DEFAULT_SPACING_PCT
        spacing == _calculate_adaptive_spacing(current_price, current_atr,
                                               base_spacing_pct, regime)
    IN  IF dir = LONG THEN RSub(current_price, spacing)
        ELSE RAdd(current_price, spacing)

\* calculate_indicators: (ema, atr), from the last values of the two series.
calculate_indicators(d) ==
    IF d.len < ema_period THEN <<Zero, Zero>>
    ELSE <<d.ema, d.current_atr>>

generate_signal(d, current_price) ==
    LET ema        == calculate_indicators(d)[1]
        atr        == calculate_indicators(d)[2]
        detected   == detect_regime_grid(d)
        regime     == detected.regime
        adx        == detected.adx
        atr_ratio  == detected.atr_ratio
        is_bullish == RGt(current_price, ema)
        is_bearish == RLt(current_price, ema)
        skipped    == should_skip_entry(regime, adx, is_bearish, atr_ratio)
    IN  [current_price |-> current_price, ema |-> ema, atr |-> atr, adx |-> adx,
         atr_ratio |-> atr_ratio, regime |-> regime,
         direction |-> IF is_bullish THEN LONG ELSE IF is_bearish THEN SHORT ELSE NEUTRAL,
         is_bullish |-> is_bullish, is_bearish |-> is_bearish,
         skip_entry |-> skipped.skip, skip_reason |-> skipped.reason]

\* Environments: nothing set; and one holding production-like values, with an
\* unreadable one for sideways_chop and values for UNKNOWN too.
GridEnvirons ==
    { [regimes |-> [regime \in MarketRegime |-> EnvUnset],
       DEFAULT_SPACING_PCT |-> Zero],
      [regimes |-> (STABLE_TREND   :> EnvSet(RegimeConfig(<<1, 100>>, R(2), <<1, 10>>, 5, <<6, 5>>, FALSE))
                 @@ VOLATILE_TREND :> EnvSet(RegimeConfig(<<1, 50>>, <<3, 2>>, <<1, 5>>, 3, One, TRUE))
                 @@ SIDEWAYS_QUIET :> EnvSet(RegimeConfig(<<1, 100>>, One, <<1, 20>>, 5, <<6, 5>>, TRUE))
                 @@ SIDEWAYS_CHOP  :> EnvMalformed
                 @@ UNKNOWN        :> EnvSet(RegimeConfig(<<1, 25>>, One, <<1, 20>>, 2, One, TRUE))),
       DEFAULT_SPACING_PCT |-> <<1, 100>>] }

SlAtrMults      == {Zero, <<3, 2>>}
GridThresholds  == {<<Zero, Zero>>, <<R(25), <<6, 5>>>>}
GridAdxs        == {NaN, R(30)}
GridRatios      == {One, <<6, 5>>, <<3, 2>>}
GridPrices      == Rs({0, 100})
GridAtrs        == Rs({0, 2})
SignalPrices    == Rs({99, 100, 101})
\* Series for generate_signal: flat ones, and quiet or volatile, trending or not.
SignalSeries ==
    {d \in Series : /\ d.close = R(100)
                    /\ d.adx \in {NaN, R(30)}
                    /\ d.current_atr \in {Zero, R(4), R(9)}}

\* The module as imported (REGIME_CONFIGS = {}) and a strategy built by
\* ATRGridStrategy.__init__ from the environment; its detector's window and the
\* EMA period are read from ATR_WINDOW_LONG and EMA_PERIOD.
InitGrid ==
    /\ RiskIdle /\ RaceIdle /\ TrailIdle
    /\ REGIME_CONFIGS = <<>>
    /\ environ \in GridEnvirons
    /\ ema_period = MaxBars
    /\ sl_atr_mult \in SlAtrMults
    /\ window_long = MaxBars - 1
    /\ \E th \in GridThresholds : adx_threshold = th[1] /\ atr_vol_threshold = th[2]
    /\ df = None
    /\ regime_out = None
    /\ grid_call = NoCall
    /\ grid_out = None

gridConfig == <<environ, ema_period, sl_atr_mult, window_long, adx_threshold, atr_vol_threshold>>

InitializeRegimeConfigs ==
    /\ REGIME_CONFIGS' = initialize_regime_configs
    /\ grid_call' = [op |-> "initialize_regime_configs"]
    /\ grid_out' = None
    /\ UNCHANGED <<gridConfig, df, regime_out, riskVars, raceVars, trailVars>>

GetRegimeConfig ==
    \E regime \in MarketRegime :
        /\ REGIME_CONFIGS' = regime_configs_after_get
        /\ grid_call' = [op |-> "get_regime_config", regime |-> regime]
        /\ grid_out' = get_regime_config(regime)
        /\ UNCHANGED <<gridConfig, df, regime_out, riskVars, raceVars, trailVars>>

ShouldSkipEntry ==
    \E regime \in MarketRegime, adx \in GridAdxs, is_bearish \in BOOLEAN,
       volatility_ratio \in GridRatios :
        /\ REGIME_CONFIGS' = regime_configs_after_get
        /\ grid_call' = [op |-> "should_skip_entry", regime |-> regime, adx |-> adx,
                         is_bearish |-> is_bearish, volatility_ratio |-> volatility_ratio]
        /\ grid_out' = should_skip_entry(regime, adx, is_bearish, volatility_ratio)
        /\ UNCHANGED <<gridConfig, df, regime_out, riskVars, raceVars, trailVars>>

CalculateNextEntryPrice ==
    \E dir \in GridDirection, current_price \in GridPrices, current_atr \in GridAtrs,
       regime \in {STABLE_TREND, SIDEWAYS_CHOP, UNKNOWN, NoRegime} :
        /\ REGIME_CONFIGS' = IF regime # NoRegime THEN regime_configs_after_get
                             ELSE REGIME_CONFIGS
        /\ grid_call' = [op |-> "calculate_next_entry_price", direction |-> dir,
                         current_price |-> current_price, current_atr |-> current_atr,
                         regime |-> regime]
        /\ grid_out' = [price |-> calculate_next_entry_price(dir, current_price,
                                                             current_atr, regime)]
        /\ UNCHANGED <<gridConfig, df, regime_out, riskVars, raceVars, trailVars>>

\* first_use records whether the table was still empty when the call began.
GenerateSignal ==
    \E d \in SignalSeries, current_price \in SignalPrices :
        /\ REGIME_CONFIGS' = regime_configs_after_get
        /\ grid_call' = [op |-> "generate_signal", df |-> d,
                         current_price |-> current_price,
                         first_use |-> (DOMAIN REGIME_CONFIGS = {})]
        /\ grid_out' = generate_signal(d, current_price)
        /\ UNCHANGED <<gridConfig, df, regime_out, riskVars, raceVars, trailVars>>

\* The host changes the environment between two calls of the strategy.
SetEnviron ==
    \E e \in GridEnvirons :
        /\ e # environ
        /\ environ' = e
        /\ grid_call' = [op |-> "setenv"]
        /\ grid_out' = None
        /\ UNCHANGED <<REGIME_CONFIGS, ema_period, sl_atr_mult, regimeVars,
                       riskVars, raceVars, trailVars>>

NextGrid ==
    \/ SetEnviron
    \/ InitializeRegimeConfigs
    \/ GetRegimeConfig
    \/ ShouldSkipEntry
    \/ CalculateNextEntryPrice
    \/ GenerateSignal

SpecGrid == InitGrid /\ [][NextGrid]_vars

---------------------------------------------------------------------------
(* Properties of the risk operations.                                      *)

\* C2: check_all_limits first records the equity in peak_equity and runs the
\* emergency check; when that denies, the Emergency result is returned whatever
\* the daily loss and the margins are; the daily-loss Blocked result is returned
\* only when the emergency check allowed; the margin result of check_entry is
\* returned only when the emergency check and the daily-loss check both passed.
C2_EmergencyFirst ==
    call.op = "check_all_limits" =>
        LET e         == call.current_equity
            drawdown  == RDiv(RSub(peak_equity, e), peak_equity)
            emergency == RGt(peak_equity, Zero) /\ RGe(drawdown, emergency_drawdown)
            dailyLoss == /\ RGt(daily_starting_equity, Zero)
                         /\ RLe(RDiv(RSub(e, daily_starting_equity), daily_starting_equity),
                                RNeg(daily_loss_limit))
        IN  /\ RGe(peak_equity, e)
            /\ emergency =>
                   /\ result.risk_level = EMERGENCY /\ ~result.allowed
                   /\ result.message = "EMERGENCY STOP: Drawdown"
                   /\ result.margin_ratio = drawdown
            /\ result.message = "Daily loss limit reached" =>
                   ~emergency /\ dailyLoss /\ result.risk_level = BLOCKED
            /\ result.message \in {"Zero or negative equity", "Margin limit exceeded",
                                   "Warning: Margin at", "Entry allowed: Margin at"} =>
                   /\ ~emergency /\ ~dailyLoss
                   /\ result = check_entry(e, call.current_margin, call.proposed_margin)

\* C2 happens: the drawdown is at the emergency level while the daily loss is
\* breached and the margins would be blocked, and Emergency is what comes back.
C2_Witness ==
    /\ call.op = "check_all_limits"
    /\ result.risk_level = EMERGENCY
    /\ result.message = "EMERGENCY STOP: Drawdown"
    /\ daily_loss_check(call.current_equity) # None
    /\ ~check_entry(call.current_equity, call.current_margin, call.proposed_margin).allowed

C4_EmergencyExactlyAtDrawdown ==
    (call.op = "check_emergency_stop" /\ result # None) =>
        LET drawdown  == RDiv(RSub(call.peak_equity, call.current_equity), call.peak_equity)
            emergency == RGt(call.peak_equity, Zero) /\ RGe(drawdown, emergency_drawdown)
        IN  /\ emergency <=> (result.risk_level = EMERGENCY /\ ~result.allowed)
            /\ ~emergency => result.allowed /\ result.risk_level # EMERGENCY
            /\ RLe(call.peak_equity, Zero) => result.risk_level = SAFE /\ result.allowed
            /\ ( /\ call.peak_equity = R(10000) /\ call.current_equity = R(8500)
                 /\ emergency_drawdown = <<3, 20>> ) =>
                   result.risk_level = EMERGENCY /\ ~result.allowed

\* C4 happens: the drawdown equals the emergency level and the call is denied.
C4_Witness ==
    /\ call = [op |-> "check_emergency_stop", current_equity |-> R(8500),
               peak_equity |-> R(10000)]
    /\ emergency_drawdown = <<3, 20>>
    /\ result # None
    /\ result.margin_ratio = emergency_drawdown
    /\ result.risk_level = EMERGENCY /\ ~result.allowed

\* C5 as stated: below the emergency level, the result is Safe when the drawdown
\* is below emergency_drawdown * 0.67 and Warning otherwise.
C5_SplitScales ==
    (call.op = "check_emergency_stop" /\ result # None /\ RGt(call.peak_equity, Zero)) =>
        LET drawdown == RDiv(RSub(call.peak_equity, call.current_equity), call.peak_equity)
        IN  RLt(drawdown, emergency_drawdown) =>
                result.risk_level =
                    IF RLt(drawdown, RMul(emergency_drawdown, <<67, 100>>))
                    THEN SAFE ELSE WARNING

\* C5, amended: below the emergency level, the result is Safe when the drawdown
\* is below 0.10 and Warning otherwise, for every configured emergency_drawdown:
\* the split is the fixed level 0.10 and does not scale with emergency_drawdown.
C5_SplitFixed ==
    (call.op = "check_emergency_stop" /\ result # None /\ RGt(call.peak_equity, Zero)) =>
        LET drawdown == RDiv(RSub(call.peak_equity, call.current_equity), call.peak_equity)
        IN  RLt(drawdown, emergency_drawdown) =>
                /\ result.allowed
                /\ result.risk_level =
                       IF RLt(drawdown, <<1, 10>>) THEN SAFE ELSE WARNING

\* C5 happens: with emergency_drawdown 0.30 a drawdown of 0.15, below 0.67 of
\* the emergency level, is already Warning.
C5_Witness ==
    /\ call.op = "check_emergency_stop" /\ result # None
    /\ emergency_drawdown = <<3, 10>>
    /\ RGt(call.peak_equity, Zero)
    /\ result.margin_ratio = <<3, 20>>
    /\ RLt(result.margin_ratio, RMul(emergency_drawdown, <<67, 100>>))
    /\ result.risk_level = WARNING

\* C6: over any sequence of update_peak_equity, reset_daily_stats and
\* check_all_limits calls run one at a time, peak_equity never decreases and
\* always equals the maximum of 0 and every equity passed so far to
\* update_peak_equity or check_all_limits.
C6_PeakIsRunningMax ==
    /\ [](peak_equity = MaxOf(passed \cup {Zero}))
    /\ [][RLe(peak_equity, peak_equity')]_vars

\* C6 happens: after a peak of 10000, lower and negative equities were passed,
\* the last one by check_all_limits, and the peak stands.
C6_Witness ==
    /\ call.op = "check_all_limits" /\ call.current_equity = R(8500)
    /\ passed = {R(-100), R(8500), R(9000), R(10000)}
    /\ daily_starting_equity = R(9000)
    /\ peak_equity = R(10000)

\* C8: calculate_position_size computes desired_margin = equity * capital_pct /
\* leverage and available_margin = max(0, equity * max_margin_ratio -
\* current_margin); when desired_margin > available_margin it returns
\* actual_margin = available_margin, actual_value = available_margin * leverage
\* and adjusted, otherwise actual_margin = desired_margin and not adjusted;
\* quantity = actual_value / current_price, and 0 when current_price <= 0.  For
\* (10000, 0.25, 3, 50, 0) with max_margin_ratio 0.5: not adjusted, quantity 50.
C8_PositionSize ==
    (call.op = "calculate_position_size" /\ result # None /\ call.leverage # 0) =>
        LET desired_margin   == RDiv(RMul(call.equity, call.capital_pct), R(call.leverage))
            balance          == RSub(RMul(call.equity, max_margin_ratio), call.current_margin)
            available_margin == IF RGt(balance, Zero) THEN balance ELSE Zero
        IN  /\ result.desired_margin = desired_margin
            /\ RGt(desired_margin, available_margin) =>
                   /\ result.actual_margin = available_margin
                   /\ result.actual_value = RMul(available_margin, R(call.leverage))
                   /\ result.adjusted
            /\ ~RGt(desired_margin, available_margin) =>
                   /\ result.actual_margin = desired_margin
                   /\ ~result.adjusted
            /\ RGt(call.current_price, Zero) =>
                   result.quantity = RDiv(result.actual_value, call.current_price)
            /\ RLe(call.current_price, Zero) => result.quantity = Zero
            /\ ( /\ call.equity = R(10000) /\ call.capital_pct = <<1, 4>>
                 /\ call.leverage = 3 /\ call.current_price = R(50)
                 /\ call.current_margin = Zero /\ max_margin_ratio = <<1, 2>> ) =>
                   ~result.adjusted /\ result.quantity = R(50)

\* C8 happens: a desired margin above the available margin was clamped to it.
C8_Witness ==
    /\ call.op = "calculate_position_size" /\ result # None /\ call.leverage = 3
    /\ call.equity = R(10000) /\ call.capital_pct = One
    /\ call.current_margin = R(4000) /\ call.current_price = R(50)
    /\ max_margin_ratio = <<1, 2>>
    /\ result.adjusted
    /\ result.actual_margin = R(1000)
    /\ result.quantity = R(60)

---------------------------------------------------------------------------
(* Properties of the trailing stop, the shared manager and the detectors.  *)

\* C1: over any chain of update_trailing_sl calls on one position, each fed the
\* stop and water marks the previous one returned, with any current_price and
\* sl_drawdown, the stop never decreases for a Long position and never
\* increases for a Short position.
C1_TrailingStopRatchet ==
    [][ /\ direction = LONG  => RLe(sl_price, sl_price')
        /\ direction = SHORT => RGe(sl_price, sl_price') ]_vars

\* C1 happens: a Long stop ratcheted up to 99 stays there when the price falls
\* to 90 and the drawdown widens to 0.5.
C1_Witness ==
    /\ direction = LONG
    /\ tick.op = "update_trailing_sl"
    /\ tick.current_sl = R(99) /\ tick.current_price = R(90)
    /\ tick.sl_drawdown = <<1, 2>>
    /\ highest_price = R(110)
    /\ sl_price = R(99)

\* C7: update_peak_equity is a read-compare-write on peak_equity.  With the
\* calls serialized, peak_equity between calls is the largest equity passed and
\* check_all_limits hands check_emergency_stop that peak; a check_all_limits
\* that reads a peak_equity below the largest equity passed computes a smaller
\* drawdown than the true one.  (That interleaved callers reach such a state is
\* C7_Witness.)
C7_SerializedKeepsPeak ==
    /\ (serialized /\ \A t \in Threads : pc[t] = "idle") =>
           peak_equity = MaxOf(passed \cup {Zero})
    /\ (serialized /\ call.op = "check_all_limits") =>
           call.peak_equity = call.true_peak
    /\ call.op = "check_all_limits" =>
           /\ RLe(call.peak_equity, call.true_peak)
           /\ RLt(call.peak_equity, call.true_peak) =>
                  /\ ~serialized
                  /\ RLt(RDiv(RSub(call.peak_equity, call.current_equity), call.peak_equity),
                         RDiv(RSub(call.true_peak, call.current_equity), call.true_peak))

\* C7 happens: without serialization every caller is back, peak_equity is
\* below the largest equity passed, and a check_all_limits that read it let an
\* entry through although the true drawdown is at the emergency level.
C7_Witness ==
    /\ ~serialized
    /\ \A t \in Threads : pc[t] = "idle"
    /\ RLt(peak_equity, MaxOf(passed \cup {Zero}))
    /\ call.op = "check_all_limits"
    /\ call.peak_equity = peak_equity
    /\ result.allowed
    /\ RGe(RDiv(RSub(call.true_peak, call.current_equity), call.true_peak),
           emergency_drawdown)

C10_AllMetricsZero ==
    (regime_out # None /\ regime_out.op = "analyze" /\ df.len < window_long) =>
        /\ regime_out.regime = UNKNOWN
        /\ regime_out.confidence = Zero
        /\ regime_out.trend_strength = Zero
        /\ regime_out.volatility_ratio = Zero
        /\ regime_out.ema_200 = Zero
        /\ regime_out.atr_14 = Zero
        /\ ~regime_out.is_bullish /\ ~regime_out.is_bearish

\* C10, amended: a series shorter than window_long, whatever its content,
\* gives regime Unknown, confidence 0, trend_strength, EMA and ATR 0, both
\* directional flags false, and volatility_ratio 1.0 (the neutral ratio, not
\* 0); the environment edition's detect_regime returns (Unknown, 0.0, 1.0).
C10_ShortSeriesUnknown ==
    ( /\ regime_out # None
      /\ regime_out.op \in {"analyze", "detect_regime", "detect_regime_grid"}
      /\ df.len < window_long ) =>
        /\ regime_out.regime = UNKNOWN
        /\ regime_out.op = "analyze" =>
               /\ regime_out.confidence = Zero
               /\ regime_out.trend_strength = Zero
               /\ regime_out.volatility_ratio = One
               /\ regime_out.ema_200 = Zero
               /\ regime_out.atr_14 = Zero
               /\ ~regime_out.is_bullish /\ ~regime_out.is_bearish
        /\ regime_out.op = "detect_regime_grid" =>
               regime_out.adx = Zero /\ regime_out.atr_ratio = One

\* C10 happens: a series one bar short of window_long, trending and volatile
\* by its indicators and closing above its EMA, is analysed as Unknown.
C10_Witness ==
    /\ regime_out # None /\ regime_out.op = "analyze"
    /\ df.len = window_long - 1
    /\ df.adx = R(30) /\ df.current_atr = R(9) /\ df.close = R(101)
    /\ regime_out.regime = UNKNOWN
    /\ regime_out.volatility_ratio = One
    /\ regime_out.confidence = Zero

\* C11: the confidence analyze returns lies in [0, 1]; it equals
\* min(1, (|adx - adx_threshold| / adx_threshold
\*         + |atr_ratio - atr_vol_threshold| / atr_vol_threshold) / 2);
\* and when either threshold is 0 it is 0, returned as a value, not raised.
\* The code divides by the thresholds unguarded, so this fails on a detector
\* configured with a zero threshold.
C11_ConfidenceDefined ==
    (regime_out # None /\ regime_out.op = "analyze_configured"
                       /\ df.len >= window_long) =>
        /\ "confidence" \in DOMAIN regime_out
        /\ LET c    == regime_out.confidence
               adxd == RDiv(RAbs(RSub(df.adx, adx_threshold)), adx_threshold)
               vold == RDiv(RAbs(RSub(calculate_atr_ratio(df), atr_vol_threshold)),
                            atr_vol_threshold)
               mean == RDiv(RAdd(adxd, vold), R(2))
           IN  /\ RLe(Zero, c) /\ RLe(c, One)
               /\ (adx_threshold = Zero \/ atr_vol_threshold = Zero) => c = Zero
               /\ (adx_threshold # Zero /\ atr_vol_threshold # Zero /\ ~IsNaN(mean))
                      => c = (IF RLt(mean, One) THEN mean ELSE One)

\* C11 on the thresholds the reference detector is built with (25 and 1.2):
\* the confidence is a value in [0, 1] and equals the clamped mean distance;
\* an undefined (NaN) ADX gives confidence 1.
C11_ConfidenceAtClassThresholds ==
    (regime_out # None /\ regime_out.op = "analyze" /\ df.len >= window_long) =>
        LET c    == regime_out.confidence
            adxd == RDiv(RAbs(RSub(df.adx, ADX_THRESHOLD)), ADX_THRESHOLD)
            vold == RDiv(RAbs(RSub(calculate_atr_ratio(df), ATR_VOL_THRESHOLD)),
                         ATR_VOL_THRESHOLD)
            mean == RDiv(RAdd(adxd, vold), R(2))
        IN  /\ RLe(Zero, c) /\ RLe(c, One)
            /\ IF IsNaN(mean) THEN c = One
               ELSE c = (IF RLt(mean, One) THEN mean ELSE One)
            /\ [confidence |-> c] = analyze_confidence(df, ADX_THRESHOLD, ATR_VOL_THRESHOLD)

\* C11's failing case happens: a detector configured with adx_threshold 0 and
\* atr_vol_threshold 1.2 analyses a series of window_long bars with ADX 30,
\* and the call raises ZeroDivisionError instead of returning a confidence.
C11_Witness ==
    /\ regime_out # None /\ regime_out.op = "analyze_configured"
    /\ df.len = window_long /\ df.adx = R(30)
    /\ adx_threshold = Zero /\ atr_vol_threshold = <<6, 5>>
    /\ "raised" \in DOMAIN regime_out
    /\ regime_out.raised = "ZeroDivisionError"

---------------------------------------------------------------------------
(* Properties of the regime parameter table and the grid planner.          *)

\* C12: the regime parameter table is total over the five regime values: once
\* initialized it has an entry for each of them, and get_regime_config
\* returns a parameter set, never an absent value, for StableTrend,
\* VolatileTrend, SidewaysQuiet, SidewaysChop and Unknown.
C12_TableTotal ==
    /\ DOMAIN REGIME_CONFIGS # {} => DOMAIN REGIME_CONFIGS = MarketRegime
    /\ grid_call.op = "get_regime_config" => grid_out # None

\* C12 for the four classified regimes: once initialized the table has exactly
\* their entries, get_regime_config returns the entry of the regime asked for,
\* and for Unknown it returns None.
C12_TableCoversClassified ==
    /\ DOMAIN REGIME_CONFIGS # {} => DOMAIN REGIME_CONFIGS = MarketRegime \ {UNKNOWN}
    /\ grid_call.op = "get_regime_config" =>
           IF grid_call.regime = UNKNOWN THEN grid_out = None
           ELSE grid_out = REGIME_CONFIGS[grid_call.regime]

\* C12's failing case happens: with values for Unknown present in the
\* environment, get_regime_config(Unknown) on the initialized table returns None.
C12_Witness ==
    /\ grid_call.op = "get_regime_config" /\ grid_call.regime = UNKNOWN
    /\ environ.regimes[UNKNOWN].set = "set"
    /\ DOMAIN REGIME_CONFIGS = MarketRegime \ {UNKNOWN}
    /\ grid_out = None

\* C13: should_skip_entry returns skip = TRUE, with a non-empty reason, exactly
\* when the regime has a parameter set whose ai_filter_strict flag is set, the
\* market is bearish and volatility_ratio is strictly above that set's
\* volatility_threshold; otherwise (a ratio equal to the threshold, any adx,
\* no parameter set) it returns skip = FALSE with the empty reason.
C13_SkipOnlyStrictBearishVolatile ==
    grid_call.op = "should_skip_entry" =>
        LET regime   == grid_call.regime
            has      == regime \in DOMAIN REGIME_CONFIGS
            suppress == /\ has
                        /\ REGIME_CONFIGS[regime].ai_filter_strict
                        /\ grid_call.is_bearish
                        /\ RGt(grid_call.volatility_ratio,
                               REGIME_CONFIGS[regime].volatility_threshold)
        IN  /\ grid_out.skip <=> suppress
            /\ grid_out.skip => grid_out.reason # ""
            /\ ~grid_out.skip => grid_out.reason = ""

\* C13 happens: in the strict VolatileTrend regime (threshold 1) a bearish
\* market with ratio 1.2 is skipped, with the reason naming the regime.
C13_Witness ==
    /\ grid_call.op = "should_skip_entry"
    /\ grid_call.regime = VOLATILE_TREND
    /\ grid_call.is_bearish /\ grid_call.volatility_ratio = <<6, 5>>
    /\ REGIME_CONFIGS[VOLATILE_TREND].ai_filter_strict
    /\ REGIME_CONFIGS[VOLATILE_TREND].volatility_threshold = One
    /\ grid_out.skip /\ grid_out.reason = "AI Filter (volatile_trend)"

---------------------------------------------------------------------------
(* Further properties of the risk operations.                              *)

\* C15: check_grid_entry(equity, margin_per_level, max_levels, current_margin)
\* returns what check_entry(equity, current_margin, margin_per_level *
\* max_levels) returns: the margin ratio it reports and decides on is that of
\* the fully filled grid, not of the next level alone.
C15_GridEntryIsFullGridEntry ==
    (call.op = "check_grid_entry" /\ result # None) =>
        LET full == RMul(call.margin_per_level, R(call.max_levels))
        IN  /\ result = check_entry(call.equity, call.current_margin, full)
            /\ RGt(call.equity, Zero) =>
                   /\ result.margin_ratio
                        = RDiv(RAdd(call.current_margin, full), call.equity)
                   /\ result.allowed <=> ~RGt(result.margin_ratio, max_margin_ratio)

\* C15 happens: with equity 10000 and 4000 in use, a grid of 3 levels of 1000
\* is Blocked at ratio 0.7, although the next level alone (ratio 0.5) would pass.
C15_Witness ==
    /\ call.op = "check_grid_entry" /\ result # None
    /\ call.equity = R(10000) /\ call.current_margin = R(4000)
    /\ call.margin_per_level = R(1000) /\ call.max_levels = 3
    /\ result.margin_ratio = <<7, 10>>
    /\ ~result.allowed /\ result.risk_level = BLOCKED
    /\ check_entry(call.equity, call.current_margin, call.margin_per_level).allowed

\* C16: when the emergency check allowed and the day's starting equity is
\* recorded (daily_starting_equity > 0, the condition under which the daily
\* limit applies), check_all_limits returns Blocked / denied for daily loss if
\* (current_equity - daily_starting_equity) / daily_starting_equity
\* <= -daily_loss_limit, equality included; when the daily loss is smaller
\* than the limit, or no starting equity is recorded, the result is the margin
\* result of check_entry.
C16_DailyLossBlocks ==
    call.op = "check_all_limits" =>
        LET cur      == call.current_equity
            drawdown == RDiv(RSub(peak_equity, cur), peak_equity)
            emergencyAllowed ==
                RLe(peak_equity, Zero) \/ RLt(drawdown, emergency_drawdown)
            pnl      == RDiv(RSub(cur, daily_starting_equity), daily_starting_equity)
            margins  == check_entry(cur, call.current_margin, call.proposed_margin)
        IN  emergencyAllowed =>
                IF RGt(daily_starting_equity, Zero) /\ RLe(pnl, RNeg(daily_loss_limit))
                THEN /\ ~result.allowed
                     /\ result.risk_level = BLOCKED
                     /\ result.message = "Daily loss limit reached"
                     /\ result.margin_ratio = RAbs(pnl)
                ELSE result = margins

\* C16 happens: the day started at 10000, the limit is 0.10 and the equity is
\* 9000, a loss of exactly 0.10; the peak is 10000, so the drawdown 0.10 is
\* below either emergency limit, and the call is denied for daily loss.
C16_Witness ==
    /\ call.op = "check_all_limits"
    /\ daily_starting_equity = R(10000) /\ daily_loss_limit = <<1, 10>>
    /\ call.current_equity = R(9000) /\ peak_equity = R(10000)
    /\ ~result.allowed /\ result.risk_level = BLOCKED
    /\ result.message = "Daily loss limit reached"
    /\ result.margin_ratio = <<1, 10>>

\* C17: for fixed equity and current_margin the margin_ratio check_entry
\* reports is non-decreasing in proposed_margin: a call with proposed margin
\* p1 reports a ratio no larger than the call with any p2 >= p1 does.
C17_MarginRatioMonotone ==
    (call.op = "check_entry" /\ result # None) =>
        \A p2 \in ProposedMargins :
            RLe(call.proposed_margin, p2) =>
                RLe(result.margin_ratio,
                    check_entry(call.equity, call.current_margin, p2).margin_ratio)

\* C17 happens: with equity 10000 and 2000 in use, proposing 1000 reports the
\* ratio 0.3 and proposing 3000 the larger ratio 0.5.
C17_Witness ==
    /\ call.op = "check_entry" /\ result # None
    /\ call.equity = R(10000) /\ call.current_margin = R(2000)
    /\ call.proposed_margin = R(1000)
    /\ result.margin_ratio = <<3, 10>>
    /\ check_entry(call.equity, call.current_margin, R(3000)).margin_ratio = <<1, 2>>

\* C18 as stated: generate_signal, and the should_skip_entry and
\* get_regime_config calls it makes, leave every piece of program state
\* unchanged, the module-level table REGIME_CONFIGS included.
C18_NoSideEffects ==
    [][grid_call'.op \in {"generate_signal", "should_skip_entry", "get_regime_config"} =>
          UNCHANGED <<REGIME_CONFIGS, gridConfig, df, regime_out,
                      riskVars, raceVars, trailVars>>]_vars

\* C18, amended: generate_signal, should_skip_entry and get_regime_config
\* leave the strategy's and the detector's fields, the environment and the
\* risk state unchanged, and leave REGIME_CONFIGS unchanged once it is
\* non-empty, whatever the environment has become; on an empty table (first
\* use) the call fills it with the four classified regimes' parameter sets.
C18_OnlyLazyInitialization ==
    [][grid_call'.op \in {"generate_signal", "should_skip_entry", "get_regime_config"} =>
          /\ UNCHANGED <<gridConfig, df, regime_out, riskVars, raceVars, trailVars>>
          /\ DOMAIN REGIME_CONFIGS # {} => REGIME_CONFIGS' = REGIME_CONFIGS
          /\ DOMAIN REGIME_CONFIGS = {} =>
                 DOMAIN REGIME_CONFIGS' = MarketRegime \ {UNKNOWN}]_vars

\* C18 happens: generate_signal ran on a series it classified as VolatileTrend
\* while the table was still empty, and the table is filled afterwards.
C18_Witness ==
    /\ grid_call.op = "generate_signal" /\ grid_call.first_use
    /\ grid_out.regime = VOLATILE_TREND
    /\ DOMAIN REGIME_CONFIGS = MarketRegime \ {UNKNOWN}

\* C19: the risk operations change no state but peak_equity and
\* daily_starting_equity, each through its own writer.  No step changes the
\* configured thresholds; check_entry, check_grid_entry, check_emergency_stop
\* and calculate_position_size leave both fields unchanged; update_peak_equity
\* and check_all_limits leave daily_starting_equity unchanged and move
\* peak_equity only to the equity passed, when that is higher;
\* reset_daily_stats leaves peak_equity unchanged and stores the equity passed
\* in daily_starting_equity.
C19_RiskFrame ==
    [][ /\ UNCHANGED riskConfig
        /\ call'.op \in {"check_entry", "check_grid_entry", "check_emergency_stop",
                         "calculate_position_size"} =>
               UNCHANGED <<peak_equity, daily_starting_equity>>
        /\ call'.op \in {"update_peak_equity", "check_all_limits"} =>
               /\ daily_starting_equity' = daily_starting_equity
               /\ peak_equity' \in {peak_equity, call'.current_equity}
        /\ call'.op = "reset_daily_stats" =>
               /\ peak_equity' = peak_equity
               /\ daily_starting_equity' = call'.current_equity ]_vars

\* C19 happens: after a peak of 10000 was recorded, reset_daily_stats(9000)
\* has stored 9000 as the day's starting equity and left the peak at 10000.
C19_Witness ==
    /\ call.op = "reset_daily_stats" /\ call.current_equity = R(9000)
    /\ daily_starting_equity = R(9000)
    /\ peak_equity = R(10000)

---------------------------------------------------------------------------
(* Further properties of the trailing stop.                                *)

\* C20: update_trailing_sl keeps the water marks as running extremes.  For
\* Long the new highest mark is the larger of the old one and current_price
\* and the lowest mark is returned unchanged; for Short the new lowest mark is
\* the smaller of the old one and current_price and the highest mark is
\* returned unchanged; so along any chain of calls the highest mark never
\* decreases and the lowest mark never increases.
C20_WaterMarksAreExtremes ==
    [][ /\ direction = LONG =>
               /\ highest_price' = (IF RGe(highest_price, tick'.current_price)
                                    THEN highest_price ELSE tick'.current_price)
               /\ lowest_price' = lowest_price
        /\ direction = SHORT =>
               /\ lowest_price' = (IF RLe(lowest_price, tick'.current_price)
                                   THEN lowest_price ELSE tick'.current_price)
               /\ highest_price' = highest_price
        /\ RLe(highest_price, highest_price')
        /\ RGe(lowest_price, lowest_price') ]_vars

\* C20 happens: on a Long position with marks 110 and 100 the price falls to
\* 90; the highest mark stays at 110 and the lowest mark is returned as it was.
C20_Witness ==
    /\ direction = LONG
    /\ tick.op = "update_trailing_sl"
    /\ tick.current_price = R(90)
    /\ tick.highest_price = R(110) /\ tick.lowest_price = R(100)
    /\ highest_price = R(110) /\ lowest_price = R(100)

---------------------------------------------------------------------------
(* The two detector editions, and further properties of the risk results.  *)

\* C21: given the same window_long, the same thresholds (the environment
\* edition configured with the reference edition's 25 and 1.2) and the same
\* series, detect_regime of regime_detector.py and detect_regime of
\* atr_grid_strategy.py return the same regime: Unknown for a short series,
\* and the same quadrant otherwise, the threshold boundaries included.
C21_EditionsAgree ==
    ( /\ regime_out # None
      /\ adx_threshold = ADX_THRESHOLD /\ atr_vol_threshold = ATR_VOL_THRESHOLD ) =>
        /\ regime_out.op = "detect_regime" =>
               regime_out.regime = detect_regime_grid(df).regime
        /\ regime_out.op = "detect_regime_grid" =>
               regime_out.regime = detect_regime(df)

\* C21 happens: the environment edition, configured with 25 and 1.2, meets a
\* series of window_long bars with adx 25 and atr_ratio 1.2, both at their
\* thresholds, and returns SidewaysChop as the reference edition does.
C21_Witness ==
    /\ regime_out # None /\ regime_out.op = "detect_regime_grid"
    /\ adx_threshold = ADX_THRESHOLD /\ atr_vol_threshold = ATR_VOL_THRESHOLD
    /\ df.len = window_long
    /\ df.adx = R(25) /\ calculate_atr_ratio(df) = <<6, 5>>
    /\ regime_out.regime = SIDEWAYS_CHOP
    /\ detect_regime(df) = SIDEWAYS_CHOP


RiskCheckOps == {"check_entry", "check_grid_entry", "check_emergency_stop", "check_all_limits"}

\* C22: every RiskCheckResult returned by check_entry, check_grid_entry,
\* check_emergency_stop or check_all_limits has allowed = True exactly when its
\* risk_level is Safe or Warning, and allowed = False exactly when it is Blocked
\* or Emergency.
C22_AllowedMatchesLevel ==
    (call.op \in RiskCheckOps /\ result # None) =>
        /\ result.risk_level \in RiskLevel
        /\ result.allowed = TRUE  <=> result.risk_level \in {SAFE, WARNING}
        /\ result.allowed = FALSE <=> result.risk_level \in {BLOCKED, EMERGENCY}

\* C22 happens: check_all_limits passes the emergency and daily checks and
\* returns check_entry's Warning, which is allowed.
C22_Witness ==
    /\ call.op = "check_all_limits" /\ result # None
    /\ RGt(call.current_equity, Zero)
    /\ result.risk_level = WARNING /\ result.allowed = TRUE
    /\ result.message = "Warning: Margin at"


\* C23: whatever update_peak_equity, reset_daily_stats and check_all_limits
\* calls came before, the fresh manager with peak_equity = 0 included,
\* check_all_limits called with current_equity <= 0 returns allowed = False.
C23_NoEquityDenied ==
    (call.op = "check_all_limits" /\ RLe(call.current_equity, Zero)) =>
        /\ result # None
        /\ result.allowed = FALSE

\* C23 happens: a manager that has recorded no peak and no daily start is asked
\* with equity 0; the emergency and daily checks pass and check_entry denies.
C23_Witness ==
    /\ call.op = "check_all_limits" /\ call.current_equity = Zero
    /\ peak_equity = Zero /\ daily_starting_equity = Zero
    /\ result.allowed = FALSE /\ result.risk_level = EMERGENCY
    /\ result.message = "Zero or negative equity"


\* C24: Emergency is sticky while equity does not recover: once
\* check_all_limits has returned Emergency for drawdown at an equity e, every
\* later check_all_limits call with current_equity <= e returns Emergency and
\* allowed = False, whatever margins it passes and whatever reset_daily_stats
\* and update_peak_equity calls came in between.
C24_EmergencySticky ==
    [][ ( /\ call'.op = "check_all_limits"
          /\ \E e \in emergency_at.at : RLe(call'.current_equity, e) ) =>
            /\ result'.risk_level = EMERGENCY
            /\ result'.allowed = FALSE ]_vars

\* C24 happens: Emergency was returned at 8500 before; the day has been reset
\* to 9000 since, and a call at equity 0 is Emergency again.
C24_Witness ==
    /\ call.op = "check_all_limits"
    /\ R(8500) \in emergency_at.at
    /\ call.current_equity = Zero
    /\ daily_starting_equity = R(9000)
    /\ result.risk_level = EMERGENCY /\ result.allowed = FALSE


\* The case C25 is about: a size computed for equity > 0, leverage > 0,
\* capital_pct >= 0 and 0 <= current_margin <= equity * max_margin_ratio has
\* been submitted to check_entry.
C25_Sized ==
    /\ call.op = "check_entry"
    /\ RGt(call.equity, Zero)
    /\ call.sized.leverage > 0
    /\ RGe(call.sized.capital_pct, Zero)
    /\ RGe(call.current_margin, Zero)
    /\ RLe(call.current_margin, RMul(call.equity, max_margin_ratio))

C25_WithinCeiling ==
    /\ RLe(RAdd(call.current_margin, call.size.actual_margin),
           RMul(call.equity, max_margin_ratio))
    /\ RGe(call.size.remaining_margin, Zero)
    /\ result.allowed = TRUE
    /\ result.risk_level # BLOCKED

\* C25: the size returned by calculate_position_size respects the margin
\* ceiling: under the preconditions above, current_margin + actual_margin <=
\* equity * max_margin_ratio, remaining_margin >= 0, and check_entry(equity,
\* current_margin, actual_margin) on the same guard is allowed, never Blocked.
C25_SizeWithinCeiling ==
    C25_Sized => C25_WithinCeiling

\* C25 in exact arithmetic: when no result is rounded, the size respects the
\* ceiling and check_entry allows it.
C25_ExactSizeWithinCeiling ==
    (float_bits = 0 /\ C25_Sized) => C25_WithinCeiling

\* C25 happens in exact arithmetic: the desired margin was clamped to the
\* margin still available, and check_entry allows it exactly at the ceiling.
C25_Witness ==
    /\ float_bits = 0 /\ C25_Sized
    /\ call.size.adjusted = TRUE
    /\ RGt(call.current_margin, Zero)
    /\ result.allowed = TRUE
    /\ result.margin_ratio = max_margin_ratio

=============================================================================
